---- MODULE Spec2Model ----
(***************************************************************************)
(* The platformer of src/hello.c (SDL_AppInit, SDL_AppEvent,               *)
(* SDL_AppIterate and their helpers) as a state machine.                   *)
(*                                                                         *)
(* Numbers.  The program computes in float.  Every float the simulation    *)
(* produces is a multiple of 0.05 (positions and speeds are sums of        *)
(* whole pixels, of GRAVITY = 0.2 and of at most two halvings of a jump    *)
(* speed), so lengths and speeds are held exactly as integers in units of  *)
(* 1/U pixel, U = 100.  global_timer is held in units of                   *)
(* 1/60 s, the amount one frame subtracts.  Angles are whole degrees.      *)
(* C ints used as flags are BOOLEAN here.  The float arithmetic differs    *)
(* from the exact one only by rounding: the float global_timer drifts by   *)
(* less than one frame over a whole countdown and reaches <= 0 in the same *)
(* frame (the 7200th) as the exact one.                                    *)
(*                                                                         *)
(* Random numbers.  A parameter rnd stands for the rand() values a call    *)
(* draws; they only shape particle velocities and colours.                 *)
(*                                                                         *)
(* Specifications.  Spec is the game session: SDL_AppEvent and             *)
(* SDL_AppIterate on the game state, the particle pool left to PoolSpec.   *)
(* PoolSpec is the particle pool under add_particle, update_particles and  *)
(* the particle calls of SDL_AppIterate; frames counts its operations.     *)
(* PlatformSpec, OverlapSpec and LoadSpec apply one helper each            *)
(* (update_moving_platforms, is_colliding through update_collectibles,     *)
(* load_level) to arguments drawn from bounded sets.                       *)
(* air_jumps, run_air_jumps, airborne_frames and unground_by are history   *)
(* variables: they record what the frames did and no handler reads them.   *)
(*                                                                         *)
(* LiveSpec is the session without the restart key under weak fairness     *)
(* of the frame; PatrolSpec is the platforms of each level under           *)
(* update_moving_platforms; MouseSpec is the mouse-circle demo of          *)
(* src/unnamed/part_000, whose globals are the record circle.              *)
(*                                                                         *)
(* Left out: walk_animation_timer, is_walking, Collectible.bob_offset and  *)
(* Particle.a, which only the render_* functions read, and rendering.      *)
(***************************************************************************)
EXTENDS Integers, Sequences, FiniteSets

(* ---------------------------------------------------------------- units  *)
U == 10 * 10

(* ------------------------------------------------- constants, hello.c:19 *)
SCREEN_WIDTH == 1200
SCREEN_HEIGHT == 800
MAX_PARTICLES == 100
MAX_COLLECTIBLES == 10
MAX_LEVELS == 6
MAX_MOVING == 5

GRAVITY == U \div 5
JUMP_STRENGTH == (-8) * U
MOVE_SPEED == 5 * U
MAX_FALL_SPEED == 18 * U
SPIN_SPEED == 8

COYOTE_TIME == 6
JUMP_BUFFER_TIME == 8

\* global_time_limit = 120.0f seconds, in sixtieths of a second
global_time_limit == 120 * 60

\* the render output size read at startup (the window is created
\* SCREEN_WIDTH x SCREEN_HEIGHT)
w == SCREEN_WIDTH
h == SCREEN_HEIGHT

(* ------------------------------------------------------------- geometry *)
\* an SDL_FRect given in pixels
R(px, py, pw, ph) == [x |-> px * U, y |-> py * U, w |-> pw * U, h |-> ph * U]

ZeroRect == R(0, 0, 0, 0)

\* is_colliding with the test of the lower edge of a made non-strict
is_colliding_OneSided(a, b) ==
    /\ a.x < b.x + b.w
    /\ a.x + a.w > b.x
    /\ a.y < b.y + b.h
    /\ a.y + a.h >= b.y

\* is_colliding that counts touching edges as an overlap
is_colliding_Touching(a, b) ==
    /\ a.x <= b.x + b.w
    /\ a.x + a.w >= b.x
    /\ a.y <= b.y + b.h
    /\ a.y + a.h >= b.y

is_colliding(a, b) ==
    /\ a.x < b.x + b.w
    /\ a.x + a.w > b.x
    /\ a.y < b.y + b.h
    /\ a.y + a.h > b.y

\* a Collectible template: {rect, collected = 0, bob_offset = 0}
Gem(px, py, pw, ph) == [rect |-> R(px, py, pw, ph), collected |-> FALSE]

ZeroGem == [rect |-> ZeroRect, collected |-> FALSE]

\* a MovingPlatform initializer: {rect, vx, vy, start_x, end_x, start_y, end_y, direction}
MP(px, py, pw, ph, pvx, pvy, sx, ex, sy, ey, dir) ==
    [rect |-> R(px, py, pw, ph), vx |-> pvx * U, vy |-> pvy * U,
     start_x |-> sx * U, end_x |-> ex * U, start_y |-> sy * U, end_y |-> ey * U,
     direction |-> dir]

ZeroMP == MP(0, 0, 0, 0, 0, 0, 0, 0, 0, 0, 0)

(* --------------------------------------- the level catalog, init_levels *)
Level0 ==
    [ platforms |-> <<R(0, h - 50, 300, 50), R(400, h - 150, 200, 30), R(700, h - 250, 200, 30),
        R(1000, h - 200, 200, 30), R(350, h - 350, 100, 30), R(900, h - 400, 100, 30)>>,
      num_platforms |-> 6,
      lava_squares |-> <<R(300, h - 45, 100, 50), R(600, h - 45, 100, 50)>>,
      num_lava |-> 2,
      start_pos |-> R(50, h - 150, 50, 50),
      goal |-> R(w - 100, h - 300, 50, 50),
      level_collectibles |-> <<Gem(450, h - 200, 20, 20), Gem(750, h - 300, 20, 20),
          Gem(950, h - 450, 20, 20)>>,
      num_collectibles |-> 3,
      level_moving_platforms |-> <<MP(500, h - 300, 100, 20, 1, 0, 500, 800, 0, 0, 1)>>,
      num_moving |-> 1 ]

Level1 ==
    [ platforms |-> <<R(0, h - 50, 200, 50), R(300, h - 150, 150, 30), R(550, h - 280, 100, 30),
        R(750, h - 200, 150, 30), R(1000, h - 350, 100, 30), R(200, h - 400, 100, 30),
        R(400, h - 500, 200, 30), R(w - 200, h - 100, 200, 50)>>,
      num_platforms |-> 8,
      lava_squares |-> <<R(200, h - 45, 100, 45), R(450, h - 45, 300, 45),
          R(900, h - 45, 100, 45)>>,
      num_lava |-> 3,
      start_pos |-> R(50, h - 150, 50, 50),
      goal |-> R(w - 150, h - 200, 50, 50),
      level_collectibles |-> <<Gem(350, h - 200, 20, 20), Gem(575, h - 330, 20, 20),
          Gem(1050, h - 400, 20, 20), Gem(500, h - 550, 20, 20)>>,
      num_collectibles |-> 4,
      level_moving_platforms |-> <<MP(650, h - 350, 80, 20, 0, -1, 0, 0, h - 450, h - 250, 1),
          MP(800, h - 400, 100, 20, 1, 0, 800, 950, 0, 0, 1)>>,
      num_moving |-> 2 ]

Level2 ==
    [ platforms |-> <<R(0, h - 50, 150, 50), R(250, h - 150, 100, 30), R(450, h - 250, 80, 30),
        R(600, h - 180, 100, 30), R(800, h - 320, 80, 30), R(950, h - 250, 100, 30),
        R(200, h - 450, 100, 30), R(400, h - 550, 150, 30), R(700, h - 480, 100, 30),
        R(w - 150, h - 100, 150, 50)>>,
      num_platforms |-> 10,
      lava_squares |-> <<R(150, h - 45, 100, 45), R(350, h - 45, 100, 45), R(700, h - 45, 250, 45),
          R(550, h - 245, 50, 70)>>,
      num_lava |-> 4,
      start_pos |-> R(50, h - 150, 50, 50),
      goal |-> R(w - 100, h - 200, 50, 50),
      level_collectibles |-> <<Gem(275, h - 200, 20, 20), Gem(475, h - 300, 20, 20),
          Gem(825, h - 370, 20, 20), Gem(475, h - 600, 20, 20), Gem(725, h - 530, 20, 20)>>,
      num_collectibles |-> 5,
      level_moving_platforms |-> <<MP(300, h - 350, 80, 20, 1, 0, 300, 500, 0, 0, 1),
          MP(600, h - 400, 80, 20, 0, -1, 0, 0, h - 500, h - 300, 1),
          MP(850, h - 150, 100, 20, 1, 0, 850, 1000, 0, 0, 1)>>,
      num_moving |-> 3 ]

Level3 ==
    [ platforms |-> <<R(0, h - 50, 100, 50), R(200, h - 150, 80, 20), R(350, h - 250, 80, 20),
        R(150, h - 350, 80, 20), R(400, h - 450, 80, 20), R(250, h - 550, 80, 20),
        R(500, h - 650, 80, 20), R(700, h - 600, 100, 20), R(900, h - 500, 80, 20),
        R(1050, h - 400, 80, 20), R(850, h - 300, 100, 20), R(w - 150, h - 200, 150, 50)>>,
      num_platforms |-> 12,
      lava_squares |-> <<R(100, h - 45, 100, 45), R(300, h - 45, 200, 45), R(600, h - 45, 300, 45),
          R(450, h - 345, 50, 95), R(750, h - 445, 50, 145)>>,
      num_lava |-> 5,
      start_pos |-> R(25, h - 150, 40, 40),
      goal |-> R(w - 100, h - 300, 50, 50),
      level_collectibles |-> <<Gem(225, h - 200, 20, 20), Gem(375, h - 300, 20, 20),
          Gem(275, h - 600, 20, 20), Gem(525, h - 700, 20, 20), Gem(925, h - 550, 20, 20),
          Gem(875, h - 350, 20, 20)>>,
      num_collectibles |-> 6,
      level_moving_platforms |-> <<MP(600, h - 350, 80, 20, 0, -2, 0, 0, h - 550, h - 250, 1),
          MP(800, h - 400, 80, 20, 1, 0, 800, 950, 0, 0, 1)>>,
      num_moving |-> 2 ]

Level4 ==
    [ platforms |-> <<R(0, h - 50, 150, 50), R(250, h - 120, 60, 20), R(400, h - 180, 60, 20),
        R(550, h - 120, 60, 20), R(700, h - 200, 60, 20), R(850, h - 150, 60, 20),
        R(1000, h - 250, 60, 20), R(900, h - 350, 80, 20), R(700, h - 450, 80, 20),
        R(500, h - 350, 80, 20), R(300, h - 450, 80, 20), R(100, h - 350, 80, 20),
        R(200, h - 550, 100, 20), R(400, h - 650, 100, 20), R(w - 200, h - 100, 200, 50)>>,
      num_platforms |-> 15,
      lava_squares |-> <<R(150, h - 45, 100, 50), R(310, h - 45, 240, 50), R(610, h - 45, 240, 50),
          R(380, h - 345, 120, 100)>>,
      num_lava |-> 4,
      start_pos |-> R(50, h - 150, 40, 40),
      goal |-> R(w - 150, h - 200, 50, 50),
      level_collectibles |-> <<Gem(275, h - 170, 20, 20), Gem(575, h - 170, 20, 20),
          Gem(875, h - 200, 20, 20), Gem(925, h - 400, 20, 20), Gem(325, h - 500, 20, 20),
          Gem(225, h - 600, 20, 20), Gem(425, h - 700, 20, 20)>>,
      num_collectibles |-> 7,
      level_moving_platforms |-> <<MP(600, h - 300, 60, 20, 1, 0, 600, 750, 0, 0, 1),
          MP(150, h - 250, 60, 20, 0, -2, 0, 0, h - 400, h - 200, 1),
          MP(750, h - 350, 60, 20, 1, 0, 750, 900, 0, 0, 1),
          MP(300, h - 200, 60, 20, 2, 0, 300, 500, 0, 0, 1)>>,
      num_moving |-> 4 ]

Level5 ==
    [ platforms |-> <<R(0, h - 50, 120, 50), R(180, h - 150, 60, 20), R(300, h - 200, 40, 20),
        R(400, h - 150, 40, 20), R(500, h - 250, 60, 20), R(620, h - 180, 40, 20),
        R(720, h - 300, 60, 20), R(840, h - 220, 40, 20), R(940, h - 350, 60, 20),
        R(1050, h - 280, 40, 20), R(950, h - 450, 80, 20), R(800, h - 550, 60, 20),
        R(650, h - 450, 60, 20), R(500, h - 550, 60, 20), R(350, h - 450, 60, 20),
        R(200, h - 550, 60, 20), R(100, h - 650, 80, 20), R(300, h - 700, 100, 20),
        R(500, h - 750, 80, 20), R(w - 150, h - 150, 150, 50)>>,
      num_platforms |-> 20,
      lava_squares |-> <<R(120, h - 45, 60, 50), R(240, h - 45, 160, 50), R(440, h - 45, 180, 50),
          R(660, h - 45, 280, 50), R(780, h - 395, 60, 150)>>,
      num_lava |-> 5,
      start_pos |-> R(25, h - 150, 40, 40),
      goal |-> R(w - 100, h - 250, 50, 50),
      level_collectibles |-> <<Gem(205, h - 200, 20, 20), Gem(525, h - 300, 20, 20),
          Gem(745, h - 350, 20, 20), Gem(975, h - 500, 20, 20), Gem(675, h - 500, 20, 20),
          Gem(225, h - 600, 20, 20), Gem(325, h - 750, 20, 20), Gem(525, h - 800, 20, 20)>>,
      num_collectibles |-> 8,
      level_moving_platforms |-> <<MP(250, h - 300, 50, 20, 1, 0, 250, 350, 0, 0, 1),
          MP(450, h - 350, 50, 20, 0, -1, 0, 0, h - 500, h - 300, 1),
          MP(600, h - 350, 50, 20, 1, 0, 600, 700, 0, 0, 1),
          MP(400, h - 600, 60, 20, 2, 0, 400, 550, 0, 0, 1),
          MP(200, h - 400, 50, 20, 0, -2, 0, 0, h - 600, h - 350, 1)>>,
      num_moving |-> 5 ]

levels == <<Level0, Level1, Level2, Level3, Level4, Level5>>

\* levels[n] of the source, n = 0 .. MAX_LEVELS - 1
LevelAt(n) == levels[n + 1]

(* ------------------------------------------------------------ variables *)
VARIABLES
    game_over, game_won, current_level, score, lives, global_timer,
    player, player_vy, is_on_ground, coyote_timer, jump_buffer, jump_held,
    player_rotation, has_double_jump, double_jump_used, invincibility_timer,
    particles, collectibles, total_collectibles, collected_count,
    moving_platforms, num_moving_platforms,
    keystate,       \* SDL's keyboard state: [left, right], LEFT/A and RIGHT/D held
    frames,         \* frames executed in this behaviour (bounded by MaxFrames)
    \* history of the run, read by the properties only
    air_jumps,      \* airborne jumps since the last frame that ended grounded
    run_air_jumps,  \* the same, counted anew after every reset_player of a handler
    airborne_frames,\* 0 if grounded or after a coyote jump, else 1 + the frames
                    \* run since is_on_ground turned false (at most COYOTE_TIME + 1)
    unground_by,    \* what turned is_on_ground false: "frame", "reset" or "none"
    \* the globals of the mouse-circle demo, src/unnamed/part_000, as one
    \* record: [mouse_x, mouse_y, game_over, mouse_moved]
    circle

\* the variables of the platformer
hello_vars ==
    <<game_over, game_won, current_level, score, lives, global_timer,
      player, player_vy, is_on_ground, coyote_timer, jump_buffer, jump_held,
      player_rotation, has_double_jump, double_jump_used, invincibility_timer,
      particles, collectibles, total_collectibles, collected_count,
      moving_platforms, num_moving_platforms, keystate, frames,
      air_jumps, run_air_jumps, airborne_frames, unground_by>>

vars == <<hello_vars, circle>>

\* the globals of hello.c as one record, the value the handlers transform
Sess ==
    [game_over |-> game_over, game_won |-> game_won,
     current_level |-> current_level, score |-> score, lives |-> lives,
     global_timer |-> global_timer, player |-> player, player_vy |-> player_vy,
     is_on_ground |-> is_on_ground, coyote_timer |-> coyote_timer,
     jump_buffer |-> jump_buffer, jump_held |-> jump_held,
     player_rotation |-> player_rotation, has_double_jump |-> has_double_jump,
     double_jump_used |-> double_jump_used,
     invincibility_timer |-> invincibility_timer, particles |-> particles,
     collectibles |-> collectibles, total_collectibles |-> total_collectibles,
     collected_count |-> collected_count, moving_platforms |-> moving_platforms,
     num_moving_platforms |-> num_moving_platforms]

(* -------------------------------------------------------- particle pool *)
ZeroParticle ==
    [x |-> 0, y |-> 0, vx |-> 0, vy |-> 0, r |-> 0, g |-> 0, b |-> 0,
     life |-> 0, max_life |-> 0, active |-> FALSE]

\* init_particles on the zero-initialized static array
init_particles == [i \in 1 .. MAX_PARTICLES |-> ZeroParticle]

\* the slot the scan of add_particle stops at, 0 when every slot is active
FirstInactive(pool) ==
    IF \E i \in 1 .. MAX_PARTICLES : ~pool[i].active
    THEN CHOOSE i \in 1 .. MAX_PARTICLES :
             /\ ~pool[i].active
             /\ \A j \in 1 .. i - 1 : pool[j].active
    ELSE 0

\* add_particle that reuses slot 1 when no slot is free
add_particle_Overwrite(pool, px, py, pvx, pvy, pr, pg, pb, plife) ==
    LET i == IF FirstInactive(pool) = 0 THEN 1 ELSE FirstInactive(pool) IN
    [pool EXCEPT ![i] =
        [x |-> px, y |-> py, vx |-> pvx, vy |-> pvy,
         r |-> pr, g |-> pg, b |-> pb,
         life |-> plife, max_life |-> plife, active |-> TRUE]]

\* add_particle that takes the last inactive slot instead of the first
add_particle_LastFree(pool, px, py, pvx, pvy, pr, pg, pb, plife) ==
    IF FirstInactive(pool) = 0 THEN pool
    ELSE LET i == CHOOSE k \in 1 .. MAX_PARTICLES :
                      /\ ~pool[k].active
                      /\ \A j \in k + 1 .. MAX_PARTICLES : pool[j].active
         IN [pool EXCEPT ![i] =
                [x |-> px, y |-> py, vx |-> pvx, vy |-> pvy,
                 r |-> pr, g |-> pg, b |-> pb,
                 life |-> plife, max_life |-> plife, active |-> TRUE]]

add_particle(pool, px, py, pvx, pvy, pr, pg, pb, plife) ==
    LET i == FirstInactive(pool) IN
    IF i = 0 THEN pool
    ELSE [pool EXCEPT ![i] =
             [x |-> px, y |-> py, vx |-> pvx, vy |-> pvy,
              r |-> pr, g |-> pg, b |-> pb,
              life |-> plife, max_life |-> plife, active |-> TRUE]]

\* for (j = 0; j < n; j++) add_particle(...) with the same arguments
RECURSIVE add_particles(_, _, _, _, _, _, _, _, _, _)
add_particles(pool, n, px, py, pvx, pvy, pr, pg, pb, plife) ==
    IF n = 0 THEN pool
    ELSE add_particles(add_particle(pool, px, py, pvx, pvy, pr, pg, pb, plife),
                       n - 1, px, py, pvx, pvy, pr, pg, pb, plife)

\* update_particles that lets a particle live one step past life = 0
update_particles_LateExpiry(pool) ==
    [i \in 1 .. MAX_PARTICLES |->
        IF pool[i].active
        THEN [pool[i] EXCEPT !.x = @ + pool[i].vx,
                             !.y = @ + pool[i].vy,
                             !.vy = @ + U \div 10,
                             !.life = @ - 1,
                             !.active = pool[i].life - 1 >= 0]
        ELSE pool[i]]

update_particles(pool) ==
    [i \in 1 .. MAX_PARTICLES |->
        IF pool[i].active
        THEN [pool[i] EXCEPT !.x = @ + pool[i].vx,
                             !.y = @ + pool[i].vy,
                             !.vy = @ + U \div 10,
                             !.life = @ - 1,
                             !.active = pool[i].life - 1 > 0]
        ELSE pool[i]]

\* the pool after k successive calls of update_particles
RECURSIVE update_particles_times(_, _)
update_particles_times(pool, k) ==
    IF k = 0 THEN pool ELSE update_particles_times(update_particles(pool), k - 1)

ActiveCount(pool) == Cardinality({i \in 1 .. MAX_PARTICLES : pool[i].active})

(* ------------------------------------------- load_level and reset_player *)
\* copies n template entries over the first n slots of a session array
CopyInto(arr, tmpl, n) ==
    [i \in DOMAIN arr |-> IF i <= n THEN tmpl[i] ELSE arr[i]]

\* load_level that copies the rectangles but keeps the collected flags of
\* the session, as if collecting had written through to the catalog
load_level_KeepsCollected(s, level_num) ==
    IF level_num >= MAX_LEVELS THEN s
    ELSE LET level == LevelAt(level_num) IN
         [s EXCEPT
            !.total_collectibles = level.num_collectibles,
            !.collected_count = 0,
            !.collectibles =
                [i \in DOMAIN @ |->
                    IF i <= level.num_collectibles
                    THEN [level.level_collectibles[i] EXCEPT !.collected = s.collectibles[i].collected]
                    ELSE @[i]],
            !.num_moving_platforms = level.num_moving,
            !.moving_platforms =
                CopyInto(@, level.level_moving_platforms, level.num_moving),
            !.has_double_jump = (level_num > 0)]

\* load_level that enables the double jump on every level
load_level_AlwaysDoubleJump(s, level_num) ==
    IF level_num >= MAX_LEVELS THEN s
    ELSE LET level == LevelAt(level_num) IN
         [s EXCEPT
            !.total_collectibles = level.num_collectibles,
            !.collected_count = 0,
            !.collectibles =
                [i \in DOMAIN @ |->
                    IF i <= level.num_collectibles
                    THEN [level.level_collectibles[i] EXCEPT !.collected = FALSE]
                    ELSE @[i]],
            !.num_moving_platforms = level.num_moving,
            !.moving_platforms =
                CopyInto(@, level.level_moving_platforms, level.num_moving),
            !.has_double_jump = TRUE]

\* load_level that also puts the countdown back to its limit
load_level_ResetsTimer(s, level_num) ==
    IF level_num >= MAX_LEVELS THEN s
    ELSE LET level == LevelAt(level_num) IN
         [s EXCEPT
            !.global_timer = global_time_limit,
            !.total_collectibles = level.num_collectibles,
            !.collected_count = 0,
            !.collectibles =
                [i \in DOMAIN @ |->
                    IF i <= level.num_collectibles
                    THEN [level.level_collectibles[i] EXCEPT !.collected = FALSE]
                    ELSE @[i]],
            !.num_moving_platforms = level.num_moving,
            !.moving_platforms =
                CopyInto(@, level.level_moving_platforms, level.num_moving),
            !.has_double_jump = (level_num > 0)]

load_level(s, level_num) ==
    IF level_num >= MAX_LEVELS THEN s
    ELSE LET level == LevelAt(level_num) IN
         [s EXCEPT
            !.total_collectibles = level.num_collectibles,
            !.collected_count = 0,
            !.collectibles =
                [i \in DOMAIN @ |->
                    IF i <= level.num_collectibles
                    THEN [level.level_collectibles[i] EXCEPT !.collected = FALSE]
                    ELSE @[i]],
            !.num_moving_platforms = level.num_moving,
            !.moving_platforms =
                CopyInto(@, level.level_moving_platforms, level.num_moving),
            !.has_double_jump = (level_num > 0)]

\* the body of load_level past its guard, reading the Level at &levels[level_num]
load_level_from(s, level, level_num) ==
    [s EXCEPT
        !.total_collectibles = level.num_collectibles,
        !.collected_count = 0,
        !.collectibles =
            [i \in DOMAIN @ |->
                IF i <= level.num_collectibles
                THEN [level.level_collectibles[i] EXCEPT !.collected = FALSE]
                ELSE @[i]],
        !.num_moving_platforms = level.num_moving,
        !.moving_platforms =
            CopyInto(@, level.level_moving_platforms, level.num_moving),
        !.has_double_jump = (level_num > 0)]

\* what &levels[level_num] may hold for level_num < 0: the guard tests only
\* level_num >= MAX_LEVELS, so the read is outside the array and undefined;
\* the counts found there differ from build to build
OutsideLevels ==
    {[level_collectibles |-> [i \in 1 .. MAX_COLLECTIBLES |-> ZeroGem],
      num_collectibles |-> c,
      level_moving_platforms |-> [i \in 1 .. MAX_MOVING |-> ZeroMP],
      num_moving |-> m] : c \in 0 .. 1, m \in 0 .. 2}

\* the sessions a call load_level(level_num) may leave, any int level_num
load_level_outcomes(s, level_num) ==
    IF level_num >= MAX_LEVELS THEN {s}
    ELSE IF level_num >= 0 THEN {load_level(s, level_num)}
    ELSE {load_level_from(s, g, level_num) : g \in OutsideLevels}

reset_player(s) ==
    LET level == LevelAt(s.current_level) IN
    [s EXCEPT
        !.player = [x |-> level.start_pos.x, y |-> level.start_pos.y,
                    w |-> 24 * U, h |-> 40 * U],
        !.player_vy = 0,
        !.player_rotation = 0,
        !.is_on_ground = FALSE,
        !.coyote_timer = 0,
        !.jump_buffer = 0,
        !.jump_held = FALSE,
        !.double_jump_used = FALSE,
        !.invincibility_timer = 0]

(* ---------------------------------------------------------- SDL_AppInit *)
\* the zero-initialized globals, before SDL_AppInit runs
StaticInit ==
    [game_over |-> FALSE, game_won |-> FALSE, current_level |-> 0,
     score |-> 0, lives |-> 3, global_timer |-> 0,
     player |-> ZeroRect, player_vy |-> 0, is_on_ground |-> FALSE,
     coyote_timer |-> 0, jump_buffer |-> 0, jump_held |-> FALSE,
     player_rotation |-> 0, has_double_jump |-> FALSE,
     double_jump_used |-> FALSE, invincibility_timer |-> 0,
     particles |-> [i \in 1 .. MAX_PARTICLES |-> ZeroParticle],
     collectibles |-> [i \in 1 .. MAX_COLLECTIBLES |-> ZeroGem],
     total_collectibles |-> 0, collected_count |-> 0,
     moving_platforms |-> [i \in 1 .. MAX_MOVING |-> ZeroMP],
     num_moving_platforms |-> 0]

\* the session as SDL_AppInit leaves it
SDL_AppInit ==
    [reset_player(load_level([StaticInit EXCEPT !.particles = init_particles], 0))
        EXCEPT !.global_timer = global_time_limit]

(* ------------------------------------------ SDL_AppIterate, phase by phase *)
\* the index of the first rectangle of rects[1 .. n] the player overlaps, or 0
FirstHit(p, rects, n) ==
    IF \E i \in 1 .. n : is_colliding(p, rects[i])
    THEN CHOOSE i \in 1 .. n :
             /\ is_colliding(p, rects[i])
             /\ \A j \in 1 .. i - 1 : ~is_colliding(p, rects[j])
    ELSE 0

MovingRects(s) == [i \in 1 .. MAX_MOVING |-> s.moving_platforms[i].rect]

\* TimerPhase that counts down without ending the game
\* a frame that takes no time off the countdown
TimerPhase_Frozen(s) ==
    s

TimerPhase_NoGameOver(s) == [s EXCEPT !.global_timer = @ - 1]

\* global_timer -= 1.0f / 60.0f; if (global_timer <= 0) game_over = 1;
TimerPhase(s) ==
    LET t == s.global_timer - 1 IN
    [s EXCEPT !.global_timer = t,
              !.game_over = IF t <= 0 THEN TRUE ELSE @]

\* the dust particle of a held direction, spawned at the moved position
Dust(s, ticks, rnd) ==
    IF s.is_on_ground /\ ticks % 3 = 0
    THEN [s EXCEPT !.particles =
             add_particle(@, s.player.x + s.player.w \div 2,
                          s.player.y + s.player.h,
                          ((rnd % 20) - 10) * (U \div 10), -U,
                          139, 69, 19, 30)]
    ELSE s

\* horizontal movement, one independent check per direction
MoveLeft(s, keys, ticks, rnd) ==
    IF keys.left
    THEN Dust([s EXCEPT !.player.x = @ - MOVE_SPEED], ticks, rnd)
    ELSE s

\* the right key as an else branch of the left key
MoveRight_ElseIf(s, keys, ticks, rnd) ==
    IF keys.right /\ ~keys.left
    THEN Dust([s EXCEPT !.player.x = @ + MOVE_SPEED], ticks, rnd)
    ELSE s

MoveRight(s, keys, ticks, rnd) ==
    IF keys.right
    THEN Dust([s EXCEPT !.player.x = @ + MOVE_SPEED], ticks, rnd)
    ELSE s

\* the two key checks, before the screen boundaries
Moved(s, keys, ticks, rnd) ==
    MoveRight(MoveLeft(s, keys, ticks, rnd), keys, ticks, rnd)

\* no left screen boundary
ClampLow_None(s) ==
    s

\* screen boundaries
ClampLow(s) ==
    IF s.player.x < 0 THEN [s EXCEPT !.player.x = 0] ELSE s

ClampHigh(s) ==
    IF s.player.x + s.player.w > w * U
    THEN [s EXCEPT !.player.x = w * U - s.player.w]
    ELSE s

\* the horizontal collision with the platforms without its revert
HorizontalStatic_NoRevert(s, old_x) ==
    s

\* horizontal collision with the platforms, then with the moving platforms
HorizontalStatic(s, old_x) ==
    LET level == LevelAt(s.current_level) IN
    IF FirstHit(s.player, level.platforms, level.num_platforms) # 0
    THEN [s EXCEPT !.player.x = old_x]
    ELSE s

HorizontalMoving(s, old_x) ==
    IF FirstHit(s.player, MovingRects(s), s.num_moving_platforms) # 0
    THEN [s EXCEPT !.player.x = old_x]
    ELSE s

HorizontalPhase(s, keys, ticks, rnd) ==
    LET old_x == s.player.x IN
    HorizontalMoving(
        HorizontalStatic(
            ClampHigh(ClampLow(Moved(s, keys, ticks, rnd))),
            old_x),
        old_x)

\* CoyotePhase without the grace period: the timer drops to 0 off the ground
CoyotePhase_NoGrace(s) ==
    IF s.is_on_ground THEN [s EXCEPT !.coyote_timer = COYOTE_TIME]
    ELSE [s EXCEPT !.coyote_timer = 0]

\* coyote time
CoyotePhase(s) ==
    IF s.is_on_ground THEN [s EXCEPT !.coyote_timer = COYOTE_TIME]
    ELSE IF s.coyote_timer > 0 THEN [s EXCEPT !.coyote_timer = @ - 1]
    ELSE s

\* JumpKind without the test of double_jump_used
JumpKind_NeverUsed(s) ==
    IF s.jump_buffer > 0 /\ (s.coyote_timer > 0 \/ s.has_double_jump)
    THEN IF s.coyote_timer > 0 THEN "coyote" ELSE "double"
    ELSE "none"

\* JumpKind that uses the double jump whenever one is left
JumpKind_DoubleFirst(s) ==
    IF s.jump_buffer > 0
       /\ (s.coyote_timer > 0 \/ (s.has_double_jump /\ ~s.double_jump_used))
    THEN IF s.has_double_jump /\ ~s.double_jump_used THEN "double" ELSE "coyote"
    ELSE "none"

\* which jump the buffered press triggers in this frame
JumpKind(s) ==
    IF s.jump_buffer > 0
       /\ (s.coyote_timer > 0 \/ (s.has_double_jump /\ ~s.double_jump_used))
    THEN IF s.coyote_timer > 0 THEN "coyote" ELSE "double"
    ELSE "none"

\* JumpPhase that leaves the rest of the buffer in place when a jump triggers
JumpPhase_KeepsBuffer(s, rnd) ==
    IF s.jump_buffer > 0
    THEN LET s1 == [s EXCEPT !.jump_buffer = @ - 1] IN
         IF JumpKind(s) = "none" THEN s1
         ELSE IF JumpKind(s) = "coyote"
         THEN [s1 EXCEPT !.player_vy = JUMP_STRENGTH, !.coyote_timer = 0]
         ELSE [s1 EXCEPT !.player_vy = (JUMP_STRENGTH * 8) \div 10,
                         !.double_jump_used = TRUE]
    ELSE s

\* jump buffering
JumpPhase(s, rnd) ==
    IF s.jump_buffer > 0
    THEN LET s1 == [s EXCEPT !.jump_buffer = @ - 1] IN
         IF JumpKind(s) = "none" THEN s1
         ELSE LET s2 == IF JumpKind(s) = "coyote"
                        THEN [s1 EXCEPT !.player_vy = JUMP_STRENGTH,
                                        !.coyote_timer = 0]
                        ELSE [s1 EXCEPT !.player_vy = (JUMP_STRENGTH * 8) \div 10,
                                        !.double_jump_used = TRUE]
              IN [s2 EXCEPT
                    !.jump_buffer = 0,
                    !.particles =
                        add_particles(@, 8, s.player.x + s.player.w \div 2,
                                      s.player.y + s.player.h,
                                      ((rnd % 40) - 20) * (U \div 10),
                                      ((rnd % 10) + 5) * (U \div 10),
                                      200, 200, 255, 40)]
    ELSE s

\* VariableJumpPhase that damps a held jump as well
VariableJumpPhase_HeldToo(s) ==
    IF s.player_vy < (-2) * U
    THEN [s EXCEPT !.player_vy = @ \div 2]
    ELSE s

\* variable jump height: player_vy *= 0.5f
VariableJumpPhase(s) ==
    IF ~s.jump_held /\ s.player_vy < (-2) * U
    THEN [s EXCEPT !.player_vy = @ \div 2]
    ELSE s

\* gravity and vertical movement
GravityPhase(s) ==
    LET v1 == s.player_vy + GRAVITY
        v2 == IF v1 > MAX_FALL_SPEED THEN MAX_FALL_SPEED ELSE v1
    IN [s EXCEPT !.player_vy = v2, !.player.y = @ + v2]

\* VerticalStatic with a faulty landing: the player is put at the platform's
\* top edge instead of on it
VerticalStatic_SnapToTop(s, rnd) ==
    LET level == LevelAt(s.current_level)
        s0 == [s EXCEPT !.is_on_ground = FALSE]
        i == FirstHit(s.player, level.platforms, level.num_platforms)
    IN IF i = 0 THEN s0
       ELSE IF s.player_vy > 0
       THEN [s0 EXCEPT !.player.y = level.platforms[i].y,
                       !.player_vy = 0,
                       !.is_on_ground = TRUE,
                       !.double_jump_used = FALSE]
       ELSE IF s.player_vy < 0
       THEN [s0 EXCEPT !.player.y = level.platforms[i].y + level.platforms[i].h,
                       !.player_vy = 0]
       ELSE s0

\* vertical collision with the platforms; clears is_on_ground first
VerticalStatic(s, rnd) ==
    LET level == LevelAt(s.current_level)
        s0 == [s EXCEPT !.is_on_ground = FALSE]
        i == FirstHit(s.player, level.platforms, level.num_platforms)
    IN IF i = 0 THEN s0
       ELSE IF s.player_vy > 0
       THEN LET py == level.platforms[i].y - s.player.h IN
            [s0 EXCEPT
                !.player.y = py,
                !.player_vy = 0,
                !.is_on_ground = TRUE,
                !.double_jump_used = FALSE,
                !.particles =
                    add_particles(@, 5, s.player.x + (rnd % (s.player.w \div U)) * U,
                                  py + s.player.h,
                                  ((rnd % 20) - 10) * (U \div 5), (-2) * U,
                                  139, 69, 19, 25)]
       ELSE IF s.player_vy < 0
       THEN [s0 EXCEPT !.player.y = level.platforms[i].y + level.platforms[i].h,
                       !.player_vy = 0]
       ELSE s0

\* vertical collision with the moving platforms
VerticalMoving(s) ==
    LET i == FirstHit(s.player, MovingRects(s), s.num_moving_platforms) IN
    IF i = 0 THEN s
    ELSE LET m == s.moving_platforms[i] IN
         IF s.player_vy > 0
         THEN [s EXCEPT !.player.y = m.rect.y - s.player.h,
                        !.player_vy = 0,
                        !.is_on_ground = TRUE,
                        !.double_jump_used = FALSE,
                        !.player.x = @ + m.vx]
         ELSE IF s.player_vy < 0
         THEN [s EXCEPT !.player.y = m.rect.y + m.rect.h,
                        !.player_vy = 0]
         ELSE s

\* update invincibility
InvincibilityPhase(s) ==
    IF s.invincibility_timer > 0
    THEN [s EXCEPT !.invincibility_timer = @ - 1]
    ELSE s

\* LoseLife that respawns with reset_player
LoseLife_FullReset(s, grant) ==
    LET s1 == [s EXCEPT !.lives = @ - 1] IN
    IF s1.lives <= 0
    THEN [s1 EXCEPT !.game_over = TRUE]
    ELSE [reset_player(s1) EXCEPT !.invincibility_timer = grant]

\* LoseLife that respawns the player after the last life as well
LoseLife_AlwaysRespawn(s, grant) ==
    LET level == LevelAt(s.current_level) IN
    [s EXCEPT !.lives = @ - 1,
              !.player.x = level.start_pos.x,
              !.player.y = level.start_pos.y,
              !.player_vy = 0,
              !.invincibility_timer = grant]

\* lives--, then game over or the respawn at the level's start position
LoseLife(s, grant) ==
    LET level == LevelAt(s.current_level)
        s1 == [s EXCEPT !.lives = @ - 1]
    IN IF s1.lives <= 0
       THEN [s1 EXCEPT !.game_over = TRUE]
       ELSE [s1 EXCEPT !.player.x = level.start_pos.x,
                       !.player.y = level.start_pos.y,
                       !.player_vy = 0,
                       !.invincibility_timer = grant]

\* the lava test without its test of the invincibility timer
LavaHit_IgnoresInvincibility(s) ==
    LET level == LevelAt(s.current_level) IN
    FirstHit(s.player, level.lava_squares, level.num_lava) # 0

\* lava collision: the first lava square hit, then the death particles
LavaHit(s) ==
    LET level == LevelAt(s.current_level) IN
    s.invincibility_timer <= 0
    /\ FirstHit(s.player, level.lava_squares, level.num_lava) # 0

\* LavaPhase with the respawn of a fall (60 frames of invincibility)
LavaPhase_ShortInvincibility(s, rnd) ==
    IF LavaHit(s) THEN LoseLife(s, 60) ELSE s

LavaPhase(s, rnd) ==
    IF LavaHit(s)
    THEN LET s1 == LoseLife(s, 120) IN
         [s1 EXCEPT !.particles =
             add_particles(@, 15, s1.player.x + s1.player.w \div 2,
                           s1.player.y + s1.player.h \div 2,
                           ((rnd % 40) - 20) * (U \div 5),
                           ((rnd % 40) - 20) * (U \div 5),
                           255, 100, 0, 60)]
    ELSE s

\* fall off screen
FellOff(s) == s.player.y > (h + 100) * U

\* FallPhase with the respawn of a hazard hit (120 frames of invincibility)
FallPhase_AsHazard(s) ==
    IF FellOff(s) THEN LoseLife(s, 120) ELSE s

FallPhase(s) ==
    IF FellOff(s) THEN LoseLife(s, 60) ELSE s

\* GoalReached without the gem count
GoalReached_Ungated(s) == is_colliding(s.player, LevelAt(s.current_level).goal)

\* goal collision
GoalReached(s) ==
    /\ is_colliding(s.player, LevelAt(s.current_level).goal)
    /\ s.collected_count >= s.total_collectibles

GoalPhase(s) ==
    IF GoalReached(s)
    THEN [s EXCEPT !.game_won = TRUE, !.score = @ + 1000 + s.lives * 500]
    ELSE s

\* the loop body of update_collectibles without its test of collected
CollectOne_Again(s, i, rnd) ==
    IF is_colliding(s.player, s.collectibles[i].rect)
    THEN LET c == s.collectibles[i].rect IN
         [s EXCEPT !.collectibles[i].collected = TRUE,
                   !.collected_count = @ + 1,
                   !.score = @ + 100,
                   !.particles =
                       add_particles(@, 10, c.x + c.w \div 2, c.y + c.h \div 2,
                                     ((rnd % 20) - 10) * (U \div 5),
                                     ((rnd % 20) - 10) * (U \div 5),
                                     255, 255, 0, 50)]
    ELSE s

\* CollectOne that marks the gem and scores it without counting it
CollectOne_Uncounted(s, i, rnd) ==
    IF ~s.collectibles[i].collected
       /\ is_colliding(s.player, s.collectibles[i].rect)
    THEN [s EXCEPT !.collectibles[i].collected = TRUE, !.score = @ + 100]
    ELSE s

\* the body of the loop of update_collectibles for index i (1-based)
CollectOne(s, i, rnd) ==
    IF ~s.collectibles[i].collected
       /\ is_colliding(s.player, s.collectibles[i].rect)
    THEN LET c == s.collectibles[i].rect IN
         [s EXCEPT !.collectibles[i].collected = TRUE,
                   !.collected_count = @ + 1,
                   !.score = @ + 100,
                   !.particles =
                       add_particles(@, 10, c.x + c.w \div 2, c.y + c.h \div 2,
                                     ((rnd % 20) - 10) * (U \div 5),
                                     ((rnd % 20) - 10) * (U \div 5),
                                     255, 255, 0, 50)]
    ELSE s

RECURSIVE CollectFrom(_, _, _)
CollectFrom(s, i, rnd) ==
    IF i > s.total_collectibles THEN s
    ELSE CollectFrom(CollectOne(s, i, rnd), i + 1, rnd)

update_collectibles(s, rnd) == CollectFrom(s, 1, rnd)

\* a platform step that puts a platform past a bound back onto the bound
StepPlatform_Clamp(m) ==
    LET nx == m.rect.x + m.vx
        ny == m.rect.y + m.vy
        cx == IF m.vx # 0 /\ nx >= m.end_x THEN m.end_x
              ELSE IF m.vx # 0 /\ nx <= m.start_x THEN m.start_x ELSE nx
    IN [m EXCEPT
          !.rect.x = cx,
          !.rect.y = ny,
          !.vx = IF m.vx # 0 /\ (nx <= m.start_x \/ nx >= m.end_x) THEN -m.vx ELSE m.vx,
          !.vy = IF m.vy # 0 /\ (ny <= m.start_y \/ ny >= m.end_y) THEN -m.vy ELSE m.vy]

\* a platform step that reflects only past a bound, not on it
StepPlatform_PastOnly(m) ==
    LET nx == m.rect.x + m.vx
        ny == m.rect.y + m.vy
    IN [m EXCEPT
          !.rect.x = nx,
          !.rect.y = ny,
          !.vx = IF m.vx # 0 /\ (nx < m.start_x \/ nx > m.end_x) THEN -m.vx ELSE m.vx,
          !.vy = IF m.vy # 0 /\ (ny < m.start_y \/ ny > m.end_y) THEN -m.vy ELSE m.vy]

\* one moving platform's step: move, then reflect at or past a bound
StepPlatform(m) ==
    LET nx == m.rect.x + m.vx
        ny == m.rect.y + m.vy
    IN [m EXCEPT
          !.rect.x = nx,
          !.rect.y = ny,
          !.vx = IF m.vx # 0 /\ (nx <= m.start_x \/ nx >= m.end_x) THEN -m.vx ELSE m.vx,
          !.vy = IF m.vy # 0 /\ (ny <= m.start_y \/ ny >= m.end_y) THEN -m.vy ELSE m.vy]

update_moving_platforms(s) ==
    [s EXCEPT !.moving_platforms =
        [i \in 1 .. MAX_MOVING |->
            IF i <= s.num_moving_platforms THEN StepPlatform(@[i]) ELSE @[i]]]

\* the body of if (!game_over && !game_won), up to the named phase
AfterHorizontal(s, keys, ticks, rnd) == HorizontalPhase(TimerPhase(s), keys, ticks, rnd)

AfterCoyote(s, keys, ticks, rnd) == CoyotePhase(AfterHorizontal(s, keys, ticks, rnd))

AfterJump(s, keys, ticks, rnd) == JumpPhase(AfterCoyote(s, keys, ticks, rnd), rnd)

AfterGravity(s, keys, ticks, rnd) ==
    GravityPhase(VariableJumpPhase(AfterJump(s, keys, ticks, rnd)))

AfterVertical(s, keys, ticks, rnd) ==
    VerticalMoving(VerticalStatic(AfterGravity(s, keys, ticks, rnd), rnd))

AfterInvincibility(s, keys, ticks, rnd) ==
    InvincibilityPhase(AfterVertical(s, keys, ticks, rnd))

AfterLava(s, keys, ticks, rnd) == LavaPhase(AfterInvincibility(s, keys, ticks, rnd), rnd)

AfterFall(s, keys, ticks, rnd) == FallPhase(AfterLava(s, keys, ticks, rnd))

AfterGoal(s, keys, ticks, rnd) == GoalPhase(AfterFall(s, keys, ticks, rnd))

PlayingFrame(s, keys, ticks, rnd) ==
    update_moving_platforms(update_collectibles(AfterGoal(s, keys, ticks, rnd), rnd))

\* spin when dead
DeadFrame(s) ==
    LET a == s.player_rotation + SPIN_SPEED IN
    [s EXCEPT !.player_rotation = IF a >= 360 THEN a - 360 ELSE a]

\* the lava particles the rendering part spawns, lava square i onwards
RECURSIVE LavaParticlesFrom(_, _, _, _)
LavaParticlesFrom(s, i, ticks, rnd) ==
    LET level == LevelAt(s.current_level) IN
    IF i > level.num_lava THEN s
    ELSE LET q == level.lava_squares[i]
             s1 == IF ticks % 5 = 0
                   THEN [s EXCEPT !.particles =
                            add_particle(@, q.x + (rnd % (q.w \div U)) * U, q.y,
                                         ((rnd % 10) - 5) * (U \div 10), (-2) * U,
                                         255, 100, 0, 80)]
                   ELSE s
         IN LavaParticlesFrom(s1, i + 1, ticks, rnd)

\* one call of SDL_AppIterate: keys is the keyboard state, ticks the value of
\* SDL_GetTicks() and rnd the value of rand() during the call
AppIterate(s, keys, ticks, rnd) ==
    LET s1 == IF ~s.game_over /\ ~s.game_won THEN PlayingFrame(s, keys, ticks, rnd)
              ELSE IF s.game_over THEN DeadFrame(s)
              ELSE s
        s2 == [s1 EXCEPT !.particles = update_particles(@)]
    IN LavaParticlesFrom(s2, 1, ticks, rnd)

(* ---------------------------------------------------------- SDL_AppEvent *)
\* KeyDownR that forgets the score
KeyDownR_KeepScore(s) ==
    IF s.game_over \/ s.game_won
    THEN reset_player(
             load_level([s EXCEPT !.game_over = FALSE,
                                  !.game_won = FALSE,
                                  !.lives = 3,
                                  !.current_level = 0,
                                  !.global_timer = global_time_limit],
                        0))
    ELSE s

\* SDL_EVENT_KEY_DOWN, SDLK_R
KeyDownR(s) ==
    IF s.game_over \/ s.game_won
    THEN reset_player(
             load_level([s EXCEPT !.game_over = FALSE,
                                  !.game_won = FALSE,
                                  !.lives = 3,
                                  !.score = 0,
                                  !.current_level = 0,
                                  !.global_timer = global_time_limit],
                        0))
    ELSE s

\* KeyDownN that does not ask for game_won
KeyDownN_NotWon(s) ==
    IF s.current_level < MAX_LEVELS - 1
    THEN reset_player(
             load_level([s EXCEPT !.current_level = @ + 1,
                                  !.game_won = FALSE],
                        s.current_level + 1))
    ELSE s

\* SDL_EVENT_KEY_DOWN, SDLK_N
KeyDownN(s) ==
    IF s.game_won /\ s.current_level < MAX_LEVELS - 1
    THEN reset_player(
             load_level([s EXCEPT !.current_level = @ + 1,
                                  !.game_won = FALSE],
                        s.current_level + 1))
    ELSE s

\* the jump key handler without its test of the game state
KeyDownJump_Ungated(s) ==
    [s EXCEPT !.jump_buffer = JUMP_BUFFER_TIME, !.jump_held = TRUE]

\* SDL_EVENT_KEY_DOWN, SDLK_SPACE or SDLK_UP
KeyDownJump(s) ==
    IF ~s.game_over /\ ~s.game_won
    THEN [s EXCEPT !.jump_buffer = JUMP_BUFFER_TIME, !.jump_held = TRUE]
    ELSE s

\* SDL_EVENT_KEY_UP, SDLK_SPACE or SDLK_UP
KeyUpJump(s) == [s EXCEPT !.jump_held = FALSE]

(* -------------------------------------------------------------- actions *)
\* bound of the model: frames executed in one behaviour
MaxFrames == 4

\* values rand() and SDL_GetTicks() take during a frame
RandSet == {7}
TickSet == {0, 1}

\* the session part of a record, written to the variables
CommitSession(s) ==
    /\ game_over' = s.game_over
    /\ game_won' = s.game_won
    /\ current_level' = s.current_level
    /\ score' = s.score
    /\ lives' = s.lives
    /\ global_timer' = s.global_timer
    /\ player' = s.player
    /\ player_vy' = s.player_vy
    /\ is_on_ground' = s.is_on_ground
    /\ coyote_timer' = s.coyote_timer
    /\ jump_buffer' = s.jump_buffer
    /\ jump_held' = s.jump_held
    /\ player_rotation' = s.player_rotation
    /\ has_double_jump' = s.has_double_jump
    /\ double_jump_used' = s.double_jump_used
    /\ invincibility_timer' = s.invincibility_timer
    /\ collectibles' = s.collectibles
    /\ total_collectibles' = s.total_collectibles
    /\ collected_count' = s.collected_count
    /\ moving_platforms' = s.moving_platforms
    /\ num_moving_platforms' = s.num_moving_platforms

\* the session is in the Playing state
Playing == ~game_over /\ ~game_won

\* history kept by a key handler: called is whether it ran reset_player
ResetHistory(called) ==
    /\ air_jumps' = air_jumps
    /\ run_air_jumps' = IF called THEN 0 ELSE run_air_jumps
    /\ airborne_frames' = IF ~called THEN airborne_frames
                          ELSE IF is_on_ground THEN 1 ELSE 0
    /\ unground_by' = IF ~called THEN unground_by
                      ELSE IF is_on_ground THEN "reset" ELSE "none"

\* history kept by a frame that triggered jump kind and ended with
\* is_on_ground = grounded
FrameHistory(kind, grounded) ==
    /\ air_jumps' = IF ~Playing THEN air_jumps
                    ELSE IF grounded THEN 0
                    ELSE IF kind = "double" THEN air_jumps + 1
                    ELSE air_jumps
    /\ run_air_jumps' = IF ~Playing THEN run_air_jumps
                        ELSE IF grounded THEN 0
                        ELSE IF kind = "double" THEN run_air_jumps + 1
                        ELSE run_air_jumps
    /\ airborne_frames' =
           IF ~Playing THEN airborne_frames
           ELSE IF grounded \/ kind = "coyote" THEN 0
           ELSE IF is_on_ground THEN 1
           ELSE IF airborne_frames > 0
           THEN (IF airborne_frames < COYOTE_TIME + 1
                 THEN airborne_frames + 1 ELSE airborne_frames)
           ELSE 0
    /\ unground_by' =
           IF ~Playing THEN unground_by
           ELSE IF grounded \/ kind = "coyote" THEN "none"
           ELSE IF is_on_ground THEN "frame"
           ELSE unground_by

Restart ==
    /\ CommitSession(KeyDownR(Sess))
    /\ ResetHistory(game_over \/ game_won)
    /\ UNCHANGED <<particles, keystate, frames>>
    /\ UNCHANGED circle

NextLevel ==
    /\ CommitSession(KeyDownN(Sess))
    /\ ResetHistory(game_won /\ current_level < MAX_LEVELS - 1)
    /\ UNCHANGED <<particles, keystate, frames>>
    /\ UNCHANGED circle

JumpPress ==
    /\ CommitSession(KeyDownJump(Sess))
    /\ UNCHANGED <<particles, keystate, frames,
                   air_jumps, run_air_jumps, airborne_frames, unground_by>>
    /\ UNCHANGED circle

JumpRelease ==
    /\ CommitSession(KeyUpJump(Sess))
    /\ UNCHANGED <<particles, keystate, frames,
                   air_jumps, run_air_jumps, airborne_frames, unground_by>>
    /\ UNCHANGED circle

\* LEFT/A or RIGHT/D goes down or up: SDL updates its keyboard state
ArrowKey ==
    /\ \E k \in [left : BOOLEAN, right : BOOLEAN] : keystate' = k
    /\ keystate' # keystate
    /\ UNCHANGED <<game_over, game_won, current_level, score, lives, global_timer,
                   player, player_vy, is_on_ground, coyote_timer, jump_buffer,
                   jump_held, player_rotation, has_double_jump, double_jump_used,
                   invincibility_timer, particles, collectibles, total_collectibles,
                   collected_count, moving_platforms, num_moving_platforms, frames,
                   air_jumps, run_air_jumps, airborne_frames, unground_by>>
    /\ UNCHANGED circle

\* the jump the frame about to run triggers
FrameJump(ticks, rnd) ==
    IF Playing THEN JumpKind(AfterCoyote(Sess, keystate, ticks, rnd)) ELSE "none"

\* a frame of the session, as the session variables see it; the particle
\* pool a frame leaves is the subject of PoolSpec
Iterate ==
    /\ frames < MaxFrames
    /\ \E ticks \in TickSet, rnd \in RandSet :
           LET t == AppIterate(Sess, keystate, ticks, rnd) IN
           /\ CommitSession(t)
           /\ FrameHistory(FrameJump(ticks, rnd), t.is_on_ground)
    /\ frames' = frames + 1
    /\ UNCHANGED <<particles, keystate>>
    /\ UNCHANGED circle

(* ------------------------------- the mouse-circle demo, part_000 *)
\* the radius of the circle
radius == 50

\* the globals of part_000 after its SDL_AppInit
circle_AppInit ==
    [mouse_x |-> 50 + 50 + 100, mouse_y |-> 50 + 50,
     game_over |-> FALSE, mouse_moved |-> FALSE]

\* the test "circle would touch the boundary" of the motion handler
TouchesBoundary(new_x, new_y) ==
    \/ new_x - radius <= 50 \/ new_x + radius >= 350
    \/ new_y - radius <= 50 \/ new_y + radius >= 250

\* ConstrainX without the test of the right edge
ConstrainX_LeftOnly(new_x) ==
    IF new_x - radius < 50 THEN 50 + radius ELSE new_x

\* the two ifs that keep new_x within the yellow square
ConstrainX(new_x) ==
    LET a == IF new_x - radius < 50 THEN 50 + radius ELSE new_x
    IN IF a + radius > 350 THEN 350 - radius ELSE a

\* the two ifs that keep new_y within the yellow square
ConstrainY(new_y) ==
    LET a == IF new_y - radius < 50 THEN 50 + radius ELSE new_y
    IN IF a + radius > 250 THEN 250 - radius ELSE a

\* SDL_EVENT_MOUSE_MOTION with motion.x, motion.y converted to the ints
\* new_x, new_y
MouseMotion(c, new_x, new_y) ==
    [mouse_x |-> ConstrainX(new_x),
     mouse_y |-> ConstrainY(new_y),
     game_over |-> c.game_over \/ (c.mouse_moved /\ TouchesBoundary(new_x, new_y)),
     mouse_moved |-> TRUE]

(* ------------------------------------------------------- starting states *)
\* the session array of a level's gems with those of got collected
GemsOf(level, got) ==
    [i \in 1 .. MAX_COLLECTIBLES |->
        IF i <= level.num_collectibles
        THEN [level.level_collectibles[i] EXCEPT !.collected = (i \in got)]
        ELSE ZeroGem]

\* startup: SDL_AppInit has run, no key is held
Startup ==
    [sess |-> SDL_AppInit,
     keystate |-> [left |-> FALSE, right |-> FALSE],
     air_jumps |-> 0, run_air_jumps |-> 0,
     airborne_frames |-> 0, unground_by |-> "none"]

\* The states below are states of runs of the program from startup, each
\* reached by the key script its comment names; "the playthrough" is a run
\* that wins levels 0 to 5 in order without losing a life.  A behaviour of
\* the model continues one of these runs for MaxFrames frames.

\* 23 frames after startup, RIGHT held: the player is falling
\* towards the ground platform of level 0
BeforeFirstLanding ==
    [sess |->
        [SDL_AppInit EXCEPT
            !.global_timer = 7177,
            !.player.x = 16500,
            !.player.y = 70520,
            !.player_vy = 460,
            !.moving_platforms = <<MP(523, 500, 100, 20, 1, 0, 500, 800, 0, 0, 1),
                    ZeroMP,
                    ZeroMP,
                    ZeroMP,
                    ZeroMP>>],
     keystate |-> [left |-> FALSE, right |-> TRUE],
     air_jumps |-> 0, run_air_jumps |-> 0,
     airborne_frames |-> 0, unground_by |-> "none"]

\* frame 180 of the playthrough: falling towards the moving platform of level 0
BeforeMovingLanding ==
    [sess |->
        [SDL_AppInit EXCEPT
            !.score = 100,
            !.global_timer = 7020,
            !.player.x = 67000,
            !.player.y = 45900,
            !.player_vy = 100,
            !.jump_held = TRUE,
            !.collectibles = GemsOf(Level0, {1}),
            !.collected_count = 1,
            !.moving_platforms = <<MP(680, 500, 100, 20, 1, 0, 500, 800, 0, 0, 1),
                    ZeroMP,
                    ZeroMP,
                    ZeroMP,
                    ZeroMP>>],
     keystate |-> [left |-> FALSE, right |-> TRUE],
     air_jumps |-> 0, run_air_jumps |-> 0,
     airborne_frames |-> 0, unground_by |-> "none"]

\* frame 522 of the playthrough: level 1, falling towards a platform after a
\* double jump
Level1BeforeLanding ==
    [sess |->
        [SDL_AppInit EXCEPT
            !.current_level = 1,
            !.score = 2900,
            !.global_timer = 6678,
            !.player.x = 37000,
            !.player.y = 60840,
            !.player_vy = 240,
            !.jump_held = TRUE,
            !.has_double_jump = TRUE,
            !.double_jump_used = TRUE,
            !.collectibles = GemsOf(Level1, {1}),
            !.total_collectibles = 4,
            !.collected_count = 1,
            !.moving_platforms = <<MP(650, 386, 80, 20, 0, -1, 0, 0, 350, 550, 1),
                    MP(864, 400, 100, 20, 1, 0, 800, 950, 0, 0, 1),
                    ZeroMP,
                    ZeroMP,
                    ZeroMP>>,
            !.num_moving_platforms = 2],
     keystate |-> [left |-> FALSE, right |-> TRUE],
     air_jumps |-> 1, run_air_jumps |-> 1,
     airborne_frames |-> 0, unground_by |-> "none"]

\* frame 1161 of the playthrough: level 2, all gems collected, falling
\* towards the goal after a double jump
Level2BeforeGoalAfterDoubleJump ==
    [sess |->
        [SDL_AppInit EXCEPT
            !.current_level = 2,
            !.score = 6200,
            !.global_timer = 6039,
            !.player.x = 107500,
            !.player.y = 55860,
            !.player_vy = 860,
            !.jump_held = TRUE,
            !.has_double_jump = TRUE,
            !.double_jump_used = TRUE,
            !.collectibles = GemsOf(Level2, {1, 2, 3, 4, 5}),
            !.total_collectibles = 5,
            !.collected_count = 5,
            !.moving_platforms = <<MP(344, 450, 80, 20, -1, 0, 300, 500, 0, 0, 1),
                    MP(600, 444, 80, 20, 0, -1, 0, 0, 300, 500, 1),
                    MP(906, 650, 100, 20, 1, 0, 850, 1000, 0, 0, 1),
                    ZeroMP,
                    ZeroMP>>,
            !.num_moving_platforms = 3],
     keystate |-> [left |-> FALSE, right |-> TRUE],
     air_jumps |-> 1, run_air_jumps |-> 1,
     airborne_frames |-> 7, unground_by |-> "frame"]

\* frame 457 of the playthrough: level 0, all gems collected, standing below
\* the goal with a jump pressed
Level0BeforeGoal ==
    [sess |->
        [SDL_AppInit EXCEPT
            !.score = 300,
            !.global_timer = 6743,
            !.player.x = 107400,
            !.player.y = 55220,
            !.player_vy = -780,
            !.jump_held = TRUE,
            !.collectibles = GemsOf(Level0, {1, 2, 3}),
            !.collected_count = 3,
            !.moving_platforms = <<MP(643, 500, 100, 20, -1, 0, 500, 800, 0, 0, 1),
                    ZeroMP,
                    ZeroMP,
                    ZeroMP,
                    ZeroMP>>],
     keystate |-> [left |-> FALSE, right |-> TRUE],
     air_jumps |-> 0, run_air_jumps |-> 0,
     airborne_frames |-> 0, unground_by |-> "none"]

\* frame 3127 of the playthrough: the last level, all gems collected,
\* standing below the goal with a jump pressed
Level5BeforeGoal ==
    [sess |->
        [SDL_AppInit EXCEPT
            !.current_level = 5,
            !.score = 15800,
            !.global_timer = 4073,
            !.player.x = 107600,
            !.player.y = 60220,
            !.player_vy = -780,
            !.jump_held = TRUE,
            !.has_double_jump = TRUE,
            !.collectibles = GemsOf(Level5, {1, 2, 3, 4, 5, 6, 7, 8}),
            !.total_collectibles = 8,
            !.collected_count = 8,
            !.moving_platforms = <<MP(269, 500, 50, 20, -1, 0, 250, 350, 0, 0, 1),
                    MP(450, 469, 50, 20, 0, -1, 0, 0, 300, 500, 1),
                    MP(619, 450, 50, 20, -1, 0, 600, 700, 0, 0, 1),
                    MP(462, 200, 60, 20, 2, 0, 400, 550, 0, 0, 1),
                    MP(200, 338, 50, 20, 0, -2, 0, 0, 200, 450, 1)>>,
            !.num_moving_platforms = 5],
     keystate |-> [left |-> FALSE, right |-> TRUE],
     air_jumps |-> 0, run_air_jumps |-> 0,
     airborne_frames |-> 0, unground_by |-> "none"]

\* startup, 26 frames, RIGHT down, 49 frames: walking on the ground platform
\* of level 0, at its right edge
AtLedge ==
    [sess |->
        [SDL_AppInit EXCEPT
            !.global_timer = 7125,
            !.player.x = 29500,
            !.player.y = 71000,
            !.is_on_ground = TRUE,
            !.coyote_timer = 6,
            !.moving_platforms = <<MP(575, 500, 100, 20, 1, 0, 500, 800, 0, 0, 1),
                    ZeroMP,
                    ZeroMP,
                    ZeroMP,
                    ZeroMP>>],
     keystate |-> [left |-> FALSE, right |-> TRUE],
     air_jumps |-> 0, run_air_jumps |-> 0,
     airborne_frames |-> 0, unground_by |-> "none"]

\* AtLedge and 4 more frames: past the edge, the coyote timer running
CoyoteRunning ==
    [sess |->
        [SDL_AppInit EXCEPT
            !.global_timer = 7121,
            !.player.x = 31500,
            !.player.y = 71200,
            !.player_vy = 80,
            !.coyote_timer = 3,
            !.moving_platforms = <<MP(579, 500, 100, 20, 1, 0, 500, 800, 0, 0, 1),
                    ZeroMP,
                    ZeroMP,
                    ZeroMP,
                    ZeroMP>>],
     keystate |-> [left |-> FALSE, right |-> TRUE],
     air_jumps |-> 0, run_air_jumps |-> 0,
     airborne_frames |-> 4, unground_by |-> "frame"]

\* AtLedge and 6 more frames: falling into the lava of level 0 with 3 lives
BeforeLava3 ==
    [sess |->
        [SDL_AppInit EXCEPT
            !.global_timer = 7119,
            !.player.x = 32500,
            !.player.y = 71420,
            !.player_vy = 120,
            !.coyote_timer = 1,
            !.moving_platforms = <<MP(581, 500, 100, 20, 1, 0, 500, 800, 0, 0, 1),
                    ZeroMP,
                    ZeroMP,
                    ZeroMP,
                    ZeroMP>>],
     keystate |-> [left |-> FALSE, right |-> TRUE],
     air_jumps |-> 0, run_air_jumps |-> 0,
     airborne_frames |-> 6, unground_by |-> "frame"]

\* BeforeLava3, then RIGHT kept down through the respawn: falling into
\* the lava again while still invincible
BeforeLavaInvincible ==
    [sess |->
        [SDL_AppInit EXCEPT
            !.lives = 2,
            !.global_timer = 7063,
            !.player.x = 32500,
            !.player.y = 71420,
            !.player_vy = 120,
            !.coyote_timer = 1,
            !.invincibility_timer = 65,
            !.moving_platforms = <<MP(637, 500, 100, 20, 1, 0, 500, 800, 0, 0, 1),
                    ZeroMP,
                    ZeroMP,
                    ZeroMP,
                    ZeroMP>>],
     keystate |-> [left |-> FALSE, right |-> TRUE],
     air_jumps |-> 0, run_air_jumps |-> 0,
     airborne_frames |-> 6, unground_by |-> "frame"]

\* the lava of level 0 hit twice, each time waiting for the invincibility
\* to run out, and falling into it a third time
BeforeLava1 ==
    [sess |->
        [SDL_AppInit EXCEPT
            !.lives = 1,
            !.global_timer = 6767,
            !.player.x = 32500,
            !.player.y = 71420,
            !.player_vy = 120,
            !.coyote_timer = 1,
            !.moving_platforms = <<MP(667, 500, 100, 20, -1, 0, 500, 800, 0, 0, 1),
                    ZeroMP,
                    ZeroMP,
                    ZeroMP,
                    ZeroMP>>],
     keystate |-> [left |-> FALSE, right |-> TRUE],
     air_jumps |-> 0, run_air_jumps |-> 0,
     airborne_frames |-> 6, unground_by |-> "frame"]

\* 7144 frames after startup without a key, then RIGHT down, 55 frames:
\* falling into the lava of level 0 with one frame of countdown left
BeforeLavaAtTimeout ==
    [sess |->
        [SDL_AppInit EXCEPT
            !.global_timer = 1,
            !.player.x = 32500,
            !.player.y = 71420,
            !.player_vy = 120,
            !.coyote_timer = 1,
            !.moving_platforms = <<MP(501, 500, 100, 20, -1, 0, 500, 800, 0, 0, 1),
                    ZeroMP,
                    ZeroMP,
                    ZeroMP,
                    ZeroMP>>],
     keystate |-> [left |-> FALSE, right |-> TRUE],
     air_jumps |-> 0, run_air_jumps |-> 0,
     airborne_frames |-> 6, unground_by |-> "frame"]

\* 7197 frames after startup without a key: 3 frames of countdown left
TimerRunningOut ==
    [sess |->
        [SDL_AppInit EXCEPT
            !.global_timer = 3,
            !.player.y = 71000,
            !.is_on_ground = TRUE,
            !.coyote_timer = 6,
            !.moving_platforms = <<MP(503, 500, 100, 20, -1, 0, 500, 800, 0, 0, 1),
                    ZeroMP,
                    ZeroMP,
                    ZeroMP,
                    ZeroMP>>],
     keystate |-> [left |-> FALSE, right |-> FALSE],
     air_jumps |-> 0, run_air_jumps |-> 0,
     airborne_frames |-> 0, unground_by |-> "none"]

\* level 0, gems 1 and 3 collected, gem 2 missed: falling onto the goal
GoalWithGemMissing ==
    [sess |->
        [SDL_AppInit EXCEPT
            !.score = 200,
            !.global_timer = 6916,
            !.player.x = 107600,
            !.player.y = 45520,
            !.player_vy = 760,
            !.jump_held = TRUE,
            !.collectibles = GemsOf(Level0, {1, 3}),
            !.collected_count = 2,
            !.moving_platforms = <<MP(784, 500, 100, 20, 1, 0, 500, 800, 0, 0, 1),
                    ZeroMP,
                    ZeroMP,
                    ZeroMP,
                    ZeroMP>>],
     keystate |-> [left |-> FALSE, right |-> TRUE],
     air_jumps |-> 0, run_air_jumps |-> 0,
     airborne_frames |-> 0, unground_by |-> "none"]

\* frame 97 of the playthrough: level 0, jumping towards the first gem,
\* two frames before reaching it
BeforeGem ==
    [sess |->
        [SDL_AppInit EXCEPT
            !.global_timer = 7103,
            !.player.x = 45500,
            !.player.y = 55800,
            !.player_vy = 80,
            !.jump_held = TRUE,
            !.moving_platforms = <<MP(597, 500, 100, 20, 1, 0, 500, 800, 0, 0, 1),
                    ZeroMP,
                    ZeroMP,
                    ZeroMP,
                    ZeroMP>>],
     keystate |-> [left |-> FALSE, right |-> FALSE],
     air_jumps |-> 0, run_air_jumps |-> 0,
     airborne_frames |-> 0, unground_by |-> "none"]

\* frame 116 of the playthrough, then RIGHT kept down: walked off the second
\* platform of level 0, past the lava, one frame before y > SCREEN_HEIGHT + 100
BeforeFall3 ==
    [sess |->
        [SDL_AppInit EXCEPT
            !.score = 100,
            !.global_timer = 7016,
            !.player.x = 86000,
            !.player.y = 89620,
            !.player_vy = 1060,
            !.collectibles = GemsOf(Level0, {1}),
            !.collected_count = 1,
            !.moving_platforms = <<MP(684, 500, 100, 20, 1, 0, 500, 800, 0, 0, 1),
                    ZeroMP,
                    ZeroMP,
                    ZeroMP,
                    ZeroMP>>],
     keystate |-> [left |-> FALSE, right |-> TRUE],
     air_jumps |-> 0, run_air_jumps |-> 0,
     airborne_frames |-> 7, unground_by |-> "frame"]

\* BeforeFall3 repeated from each respawn: falling off the screen a third
\* time, with one life left
BeforeFall1 ==
    [sess |->
        [SDL_AppInit EXCEPT
            !.score = 100,
            !.lives = 1,
            !.global_timer = 6646,
            !.player.x = 86000,
            !.player.y = 89620,
            !.player_vy = 1060,
            !.collectibles = GemsOf(Level0, {1}),
            !.collected_count = 1,
            !.moving_platforms = <<MP(546, 500, 100, 20, -1, 0, 500, 800, 0, 0, 1),
                    ZeroMP,
                    ZeroMP,
                    ZeroMP,
                    ZeroMP>>],
     keystate |-> [left |-> FALSE, right |-> TRUE],
     air_jumps |-> 0, run_air_jumps |-> 0,
     airborne_frames |-> 7, unground_by |-> "frame"]

\* startup, 26 frames, RIGHT and the jump key down and held, 65 frames: in the air,
\* one step of MOVE_SPEED left of the second platform of level 0, level with it
BeforeSideHit ==
    [sess |->
        [SDL_AppInit EXCEPT
            !.global_timer = 7109,
            !.player.x = 37500,
            !.player.y = 61900,
            !.player_vy = 500,
            !.jump_held = TRUE,
            !.moving_platforms = <<MP(591, 500, 100, 20, 1, 0, 500, 800, 0, 0, 1),
                    ZeroMP,
                    ZeroMP,
                    ZeroMP,
                    ZeroMP>>],
     keystate |-> [left |-> FALSE, right |-> TRUE],
     air_jumps |-> 0, run_air_jumps |-> 0,
     airborne_frames |-> 0, unground_by |-> "none"]

\* LEFT down at startup, 10 frames: falling from the start position of level 0,
\* arrived at the left edge of the screen
AtLeftWall ==
    [sess |->
        [SDL_AppInit EXCEPT
            !.global_timer = 7190,
            !.player.x = 0,
            !.player.y = 66100,
            !.player_vy = 200,
            !.moving_platforms = <<MP(510, 500, 100, 20, 1, 0, 500, 800, 0, 0, 1),
                    ZeroMP,
                    ZeroMP,
                    ZeroMP,
                    ZeroMP>>],
     keystate |-> [left |-> TRUE, right |-> FALSE],
     air_jumps |-> 0, run_air_jumps |-> 0,
     airborne_frames |-> 0, unground_by |-> "none"]

\* level 0 with all gems collected, a wait on its last platform and a jump towards the
\* goal at frame 7198: frame 7199, one frame of countdown left, the goal one frame away
GoalAtTimeout ==
    [sess |->
        [SDL_AppInit EXCEPT
            !.score = 300,
            !.global_timer = 1,
            !.player.x = 107400,
            !.player.y = 55220,
            !.player_vy = -780,
            !.jump_held = TRUE,
            !.collectibles = GemsOf(Level0, {1, 2, 3}),
            !.collected_count = 3,
            !.moving_platforms = <<MP(501, 500, 100, 20, -1, 0, 500, 800, 0, 0, 1),
                    ZeroMP,
                    ZeroMP,
                    ZeroMP,
                    ZeroMP>>],
     keystate |-> [left |-> FALSE, right |-> TRUE],
     air_jumps |-> 0, run_air_jumps |-> 0,
     airborne_frames |-> 0, unground_by |-> "none"]

Scenarios ==
    {Startup, BeforeFirstLanding, BeforeMovingLanding, Level1BeforeLanding,
     Level2BeforeGoalAfterDoubleJump, Level0BeforeGoal, Level5BeforeGoal,
     AtLedge, CoyoteRunning, BeforeLava3, BeforeLavaInvincible, BeforeLava1,
     BeforeLavaAtTimeout,
     TimerRunningOut, GoalWithGemMissing, BeforeGem, BeforeFall3, BeforeFall1,
     BeforeSideHit,
     AtLeftWall,
     GoalAtTimeout}

\* a behaviour starts in one of the states c
StartFrom(c) ==
    /\ game_over = c.sess.game_over
    /\ game_won = c.sess.game_won
    /\ current_level = c.sess.current_level
    /\ score = c.sess.score
    /\ lives = c.sess.lives
    /\ global_timer = c.sess.global_timer
    /\ player = c.sess.player
    /\ player_vy = c.sess.player_vy
    /\ is_on_ground = c.sess.is_on_ground
    /\ coyote_timer = c.sess.coyote_timer
    /\ jump_buffer = c.sess.jump_buffer
    /\ jump_held = c.sess.jump_held
    /\ player_rotation = c.sess.player_rotation
    /\ has_double_jump = c.sess.has_double_jump
    /\ double_jump_used = c.sess.double_jump_used
    /\ invincibility_timer = c.sess.invincibility_timer
    /\ particles = c.sess.particles
    /\ collectibles = c.sess.collectibles
    /\ total_collectibles = c.sess.total_collectibles
    /\ collected_count = c.sess.collected_count
    /\ moving_platforms = c.sess.moving_platforms
    /\ num_moving_platforms = c.sess.num_moving_platforms
    /\ keystate = c.keystate
    /\ air_jumps = c.air_jumps
    /\ run_air_jumps = c.run_air_jumps
    /\ airborne_frames = c.airborne_frames
    /\ unground_by = c.unground_by
    /\ frames = 0
    /\ circle = circle_AppInit

Init == \E c \in Scenarios : StartFrom(c)

Next == Restart \/ NextLevel \/ JumpPress \/ JumpRelease \/ ArrowKey \/ Iterate

Spec == Init /\ [][Next]_vars

(* ------------------------------------------------- play without restart *)
\* the scenarios of the last frames of the countdown
LastFrames == {BeforeLavaAtTimeout, TimerRunningOut, GoalAtTimeout}

LiveInit == \E c \in LastFrames : StartFrom(c)

\* SDL_AppIterate called by the main loop for as long as the program runs,
\* in every state of the session; frames counts the calls up to MaxFrames
LiveIterate ==
    /\ \E ticks \in TickSet, rnd \in RandSet :
           LET t == AppIterate(Sess, keystate, ticks, rnd) IN
           /\ CommitSession(t)
           /\ FrameHistory(FrameJump(ticks, rnd), t.is_on_ground)
    /\ frames' = IF frames < MaxFrames THEN frames + 1 ELSE frames
    /\ UNCHANGED <<particles, keystate>>
    /\ UNCHANGED circle

LiveNext == NextLevel \/ JumpPress \/ JumpRelease \/ ArrowKey \/ LiveIterate

\* a call of SDL_AppIterate changes the state: the countdown when Playing,
\* the rotation when Dead, the count of calls below MaxFrames
FrameActs == Playing \/ game_over \/ frames < MaxFrames

\* the session with every key event but the restart; the main loop calls
\* SDL_AppIterate again and again: weak fairness of the frame,
\* WF_vars(LiveIterate), written with FrameActs for ENABLED <<LiveIterate>>_vars
LiveSpec ==
    /\ LiveInit /\ [][LiveNext]_vars
    /\ ([]<>(~FrameActs) \/ []<><<LiveIterate>>_vars)

(* ------------------------------------------------ the particle pool alone *)
\* bounds of PoolSpec: operations applied in one behaviour, and the free
\* slots of the pool a behaviour may start with
MaxOps == 4
FreeSlots == 2

\* the lifetimes and positions Spawn passes to add_particle
SpawnLives == {1, 3}
SpawnXs == {0, 5 * U}

\* the pool n calls of add_particle leave of the empty pool, none expired:
\* the first n slots taken, here by the landing dust of SDL_AppIterate
Dusty(n) ==
    [i \in 1 .. MAX_PARTICLES |->
        IF i <= n
        THEN [x |-> 50 * U, y |-> 750 * U, vx |-> (-2) * U, vy |-> (-2) * U,
              r |-> 139, g |-> 69, b |-> 19,
              life |-> 25, max_life |-> 25, active |-> TRUE]
        ELSE ZeroParticle]

\* a pool with FreeSlots slots left, and the empty pool of startup
PoolStarts == {init_particles, Dusty(MAX_PARTICLES - FreeSlots)}

\* one call of add_particle
Spawn ==
    /\ frames < MaxOps
    /\ \E px \in SpawnXs, plife \in SpawnLives :
           particles' = add_particle(particles, px, 750 * U, 0, (-2) * U,
                                     200, 200, 255, plife)
    /\ frames' = frames + 1
    /\ UNCHANGED <<game_over, game_won, current_level, score, lives, global_timer,
                   player, player_vy, is_on_ground, coyote_timer, jump_buffer,
                   jump_held, player_rotation, has_double_jump, double_jump_used,
                   invincibility_timer, collectibles, total_collectibles,
                   collected_count, moving_platforms, num_moving_platforms,
                   keystate, air_jumps, run_air_jumps, airborne_frames, unground_by>>
    /\ UNCHANGED circle

\* one call of update_particles
Step ==
    /\ frames < MaxOps
    /\ particles' = update_particles(particles)
    /\ frames' = frames + 1
    /\ UNCHANGED <<game_over, game_won, current_level, score, lives, global_timer,
                   player, player_vy, is_on_ground, coyote_timer, jump_buffer,
                   jump_held, player_rotation, has_double_jump, double_jump_used,
                   invincibility_timer, collectibles, total_collectibles,
                   collected_count, moving_platforms, num_moving_platforms,
                   keystate, air_jumps, run_air_jumps, airborne_frames, unground_by>>
    /\ UNCHANGED circle

\* one call of SDL_AppIterate, the particle pool included
IterateWithPool ==
    /\ frames < MaxOps
    /\ \E ticks \in TickSet, rnd \in RandSet :
           LET t == AppIterate(Sess, keystate, ticks, rnd) IN
           /\ CommitSession(t)
           /\ particles' = t.particles
           /\ FrameHistory(FrameJump(ticks, rnd), t.is_on_ground)
    /\ frames' = frames + 1
    /\ UNCHANGED keystate
    /\ UNCHANGED circle

PoolInit == \E p \in PoolStarts : StartFrom([Startup EXCEPT !.sess.particles = p])

PoolNext == Spawn \/ Step \/ IterateWithPool

\* the pool under its two operations and under whole frames; frames counts
\* the operations applied
PoolSpec == PoolInit /\ [][PoolNext]_vars

(* ------------------------------------------- the moving platforms alone *)
\* bound of PlatformSpec: calls of update_moving_platforms in one behaviour
MaxSteps == 3

\* the platform update_moving_platforms is applied to: positions (pixels)
\* around the x-range [100, 200] and the y-range [300, 400], and velocities
\* (pixels per step) on each axis
PlatXs == {95, 100, 105, 150, 195, 198, 200, 205}
PlatYs == {300, 350, 397, 400}
PlatVs == {-5, 0, 5}

\* one call of update_moving_platforms
StepPlatforms ==
    /\ frames < MaxSteps
    /\ CommitSession(update_moving_platforms(Sess))
    /\ frames' = frames + 1
    /\ UNCHANGED <<particles, keystate, air_jumps, run_air_jumps,
                   airborne_frames, unground_by>>
    /\ UNCHANGED circle

\* the session of startup, its one moving platform replaced by a drawn one
PlatformInit ==
    \E px \in PlatXs, py \in PlatYs, pvx \in PlatVs, pvy \in PlatVs :
        StartFrom([Startup EXCEPT !.sess.moving_platforms[1] =
                       MP(px, py, 100, 20, pvx, pvy, 100, 200, 300, 400, 1)])

PlatformNext == StepPlatforms

\* update_moving_platforms as a function of the platforms; frames counts
\* the calls
PlatformSpec == PlatformInit /\ [][PlatformNext]_vars

(* ------------------------------- the platforms of the levels on patrol *)
\* the session of startup with level n loaded: its platforms as init_levels
\* sets them
PatrolInit ==
    \E n \in 0 .. MAX_LEVELS - 1 :
        StartFrom([Startup EXCEPT
                       !.sess = load_level([SDL_AppInit EXCEPT !.current_level = n], n)])

\* one call of update_moving_platforms, any number of them in a behaviour:
\* the platforms come back to where they started
PatrolStep ==
    /\ CommitSession(update_moving_platforms(Sess))
    /\ UNCHANGED <<particles, keystate, frames, air_jumps, run_air_jumps,
                   airborne_frames, unground_by>>
    /\ UNCHANGED circle

PatrolSpec == PatrolInit /\ [][PatrolStep]_vars

(* ------------------------------------------------- is_colliding alone *)
\* bounds of OverlapSpec: the rectangles is_colliding is applied to have
\* corners at 0 .. MaxCoord and sizes 0 .. MaxSize, in steps of 5 pixels
MaxCoord == 2
MaxSize == 2

Rects ==
    {R(5 * i, 5 * j, 5 * k, 5 * l) :
        i \in 0 .. MaxCoord, j \in 0 .. MaxCoord,
        k \in 0 .. MaxSize, l \in 0 .. MaxSize}

\* one call of update_collectibles: is_colliding(player, collectibles[i].rect)
\* decides what is collected
Collect ==
    /\ frames = 0
    /\ \E rnd \in RandSet :
           LET t == update_collectibles(Sess, rnd) IN
           /\ CommitSession(t)
           /\ particles' = t.particles
    /\ frames' = frames + 1
    /\ UNCHANGED <<keystate, air_jumps, run_air_jumps, airborne_frames, unground_by>>
    /\ UNCHANGED circle

\* the session of startup with the player rectangle and the rectangle of
\* the first collectible drawn from Rects
OverlapInit ==
    \E a \in Rects, b \in Rects :
        StartFrom([Startup EXCEPT !.sess.player = a,
                                  !.sess.collectibles[1].rect = b])

OverlapNext == Collect

\* is_colliding as a function of two rectangles, applied by
\* update_collectibles to the player and the first collectible
OverlapSpec == OverlapInit /\ [][OverlapNext]_vars

(* --------------------------------------------------- load_level alone *)
\* bounds of LoadSpec: calls of load_level in one behaviour, and how far
\* past either end of 0 .. MAX_LEVELS - 1 the level numbers passed reach
MaxLoads == 2
IndexReach == 2

LevelNums == (0 - IndexReach) .. (MAX_LEVELS - 1 + IndexReach)

\* one call load_level(n)
Load ==
    /\ frames < MaxLoads
    /\ \E n \in LevelNums :
           \E t \in load_level_outcomes(Sess, n) : CommitSession(t)
    /\ frames' = frames + 1
    /\ UNCHANGED <<particles, keystate, air_jumps, run_air_jumps,
                   airborne_frames, unground_by>>
    /\ UNCHANGED circle

LoadNext == Load

\* load_level as a function of the session and of its argument, applied to
\* the sessions of Scenarios; frames counts the calls
LoadSpec == Init /\ [][LoadNext]_vars

(* -------------------------------------------- the mouse-circle demo *)
\* the positions the motion events report: on, next to and between the
\* edges of the yellow square and the limits of the circle's centre
MouseXs == {50 * i : i \in 0 .. 8} \cup {99, 101, 149, 151, 299, 301}
MouseYs == {50 * i : i \in 0 .. 6} \cup {99, 101, 149, 151, 199, 201}

\* one mouse-motion event
MouseMove ==
    /\ \E new_x \in MouseXs, new_y \in MouseYs :
           circle' = MouseMotion(circle, new_x, new_y)
    /\ UNCHANGED hello_vars

MouseInit == StartFrom(Startup)

\* part_000 under its mouse-motion events
MouseSpec == MouseInit /\ [][MouseMove]_vars

(* ---------------------------------------------------------------- claims *)
\* The properties below are about the frame SDL_AppIterate is about to run
\* in a reachable state: AfterGravity, AfterVertical, ... are the session at
\* the named point of that frame.

\* C1 -- Grounded landing.  In every Playing frame in which, after gravity
\* and vertical movement, the player has player_vy > 0 and overlaps a
\* platform, the session after the vertical collision code has player_vy = 0,
\* is_on_ground set and player.y = y of the first overlapping platform in
\* array order (the platforms of the level first, then the moving platforms)
\* minus player.h.
C1_GroundedLanding ==
    Playing =>
        \A ticks \in TickSet, rnd \in RandSet :
            LET g == AfterGravity(Sess, keystate, ticks, rnd)
                v == AfterVertical(Sess, keystate, ticks, rnd)
                level == LevelAt(g.current_level)
                i == FirstHit(g.player, level.platforms, level.num_platforms)
                j == FirstHit(g.player, MovingRects(g), g.num_moving_platforms)
            IN (g.player_vy > 0 /\ (i # 0 \/ j # 0)) =>
                   /\ v.player_vy = 0
                   /\ v.is_on_ground
                   /\ v.player.y = (IF i # 0 THEN level.platforms[i].y
                                    ELSE g.moving_platforms[j].rect.y) - g.player.h

\* an airborne player about to land on a platform of the level, in a state
\* reached by a frame
C1_Witness ==
    /\ Playing /\ ~is_on_ground /\ frames > 0 /\ frames < MaxFrames
    /\ \E ticks \in TickSet, rnd \in RandSet :
           LET g == AfterGravity(Sess, keystate, ticks, rnd)
               v == AfterVertical(Sess, keystate, ticks, rnd)
               level == LevelAt(g.current_level)
               i == FirstHit(g.player, level.platforms, level.num_platforms)
           IN /\ g.player_vy > 0 /\ i # 0
              /\ g.player.y # level.platforms[i].y - g.player.h
              /\ v.is_on_ground /\ v.player_vy = 0
              /\ v.player.y = level.platforms[i].y - g.player.h

\* the player of session s overlaps a lava square of the level
OnHazard(s) ==
    \E i \in 1 .. LevelAt(s.current_level).num_lava :
        is_colliding(s.player, LevelAt(s.current_level).lava_squares[i])

\* the frame about to run meets the hazard check with the invincibility
\* timer at 0, the player on a hazard and more than one life
HazardHitWithLives(ticks, rnd) ==
    LET a == AfterInvincibility(Sess, keystate, ticks, rnd) IN
    Playing /\ a.invincibility_timer = 0 /\ OnHazard(a) /\ a.lives > 1

\* what C2 says of the frame, but for the game-over flag
HazardRespawn(ticks, rnd) ==
    LET e == AppIterate(Sess, keystate, ticks, rnd)
        start == LevelAt(current_level).start_pos
    IN /\ e.lives = lives - 1
       /\ e.player.x = start.x /\ e.player.y = start.y
       /\ e.player_vy = 0
       /\ e.invincibility_timer = 120

\* C2 as stated -- Hazard hit with lives to spare: a Playing frame in which
\* the invincibility timer is 0 and the player overlaps a hazard with
\* lives > 1 takes one life, puts the player at the level's start position,
\* sets player_vy to 0 and the invincibility timer to 120, and the game does
\* not become Dead.
C2_AsStated ==
    \A ticks \in TickSet, rnd \in RandSet :
        HazardHitWithLives(ticks, rnd) =>
            /\ HazardRespawn(ticks, rnd)
            /\ ~AppIterate(Sess, keystate, ticks, rnd).game_over

\* C2 -- Hazard hit with lives to spare, amended: the frame takes one life,
\* puts the player at the level's start position, sets player_vy to 0 and
\* the invincibility timer to 120; the hit does not make the game Dead: the
\* frame ends Dead exactly if the countdown ran out in it.
C2_HazardHit ==
    \A ticks \in TickSet, rnd \in RandSet :
        HazardHitWithLives(ticks, rnd) =>
            /\ HazardRespawn(ticks, rnd)
            /\ AppIterate(Sess, keystate, ticks, rnd).game_over
                   <=> (global_timer - 1 <= 0)

\* a frame has taken the third life on a hazard and respawned the player,
\* and the game goes on
C2_Witness ==
    /\ frames > 0 /\ Playing
    /\ lives = 2 /\ invincibility_timer = 120 /\ player_vy = 0
    /\ player.x = LevelAt(current_level).start_pos.x
    /\ player.y = LevelAt(current_level).start_pos.y

\* C3 -- Win gating.  A Playing frame whose goal check finds the player on
\* the goal rectangle sets game_won if and only if collected_count >=
\* total_collectibles at that check; when it does, the check adds exactly
\* 1000 + lives * 500 to the score, which is also what the whole frame adds;
\* with collected_count < total_collectibles the check leaves game_won and
\* the score as they were.
C3_WinGating ==
    Playing =>
        \A ticks \in TickSet, rnd \in RandSet :
            LET f == AfterFall(Sess, keystate, ticks, rnd)
                g == AfterGoal(Sess, keystate, ticks, rnd)
                e == AppIterate(Sess, keystate, ticks, rnd)
                all == f.collected_count >= f.total_collectibles
            IN is_colliding(f.player, LevelAt(f.current_level).goal) =>
                   /\ g.game_won <=> all
                   /\ e.game_won <=> all
                   /\ all => /\ g.score = f.score + 1000 + f.lives * 500
                             /\ e.score = score + 1000 + f.lives * 500
                   /\ ~all => g.game_won = f.game_won /\ g.score = f.score

\* a frame has won level 0 with 3 lives and its 3 gems: 300 + 1000 + 1500
C3_Witness ==
    /\ frames > 0 /\ game_won /\ current_level = 0
    /\ collected_count = total_collectibles /\ lives = 3 /\ score = 2800

\* what C4 says of the frame about to run, n being the airborne jumps
\* (JumpKind "double": triggered with the coyote timer at 0) counted so far
DoubleJumpGating(n) ==
    /\ n <= 1
    /\ \A ticks \in TickSet, rnd \in RandSet :
           /\ FrameJump(ticks, rnd) = "double" =>
                  /\ has_double_jump /\ current_level > 0
                  /\ AfterJump(Sess, keystate, ticks, rnd).player_vy
                         = (4 * JUMP_STRENGTH) \div 5
           /\ (Playing /\ n >= 1) => FrameJump(ticks, rnd) = "none"

\* C4 as stated -- Double jump gating: between two consecutive landings at
\* most one airborne jump occurs, it sets player_vy to 0.8 * JUMP_STRENGTH,
\* and after it no jump press triggers a jump until a landing; on level 0 no
\* airborne jump occurs.
C4_AsStated == DoubleJumpGating(air_jumps)

\* C4 -- Double jump gating, amended: the same with the airborne jumps
\* counted since the last landing or, if later, the last restart or
\* next-level event that ran reset_player, which clears double_jump_used
\* without a landing.
C4_DoubleJumpGating == DoubleJumpGating(run_air_jumps)

\* after a double jump on a level that has it, airborne, a further jump
\* press is buffered and the next frame ignores it
C4_Witness ==
    /\ Playing /\ frames > 0 /\ frames < MaxFrames
    /\ current_level > 0 /\ run_air_jumps = 1 /\ double_jump_used
    /\ ~is_on_ground /\ jump_buffer = JUMP_BUFFER_TIME
    /\ player_vy = (4 * JUMP_STRENGTH) \div 5 + GRAVITY

\* A jump press has just arrived (no frame has run since) and is_on_ground
\* turned false airborne_frames frames ago, counting the frame about to run,
\* by one of causes, with no coyote jump since.
PressedAirborne(causes) ==
    /\ Playing /\ ~is_on_ground
    /\ jump_buffer = JUMP_BUFFER_TIME
    /\ unground_by \in causes /\ airborne_frames >= 1

\* what C5 says of the frame about to run
CoyoteJump(causes) ==
    \A ticks \in TickSet, rnd \in RandSet :
        PressedAirborne(causes) =>
            IF airborne_frames < COYOTE_TIME
            THEN /\ FrameJump(ticks, rnd) = "coyote"
                 /\ AfterJump(Sess, keystate, ticks, rnd).player_vy = JUMP_STRENGTH
            ELSE FrameJump(ticks, rnd) # "coyote"

\* C5 as stated -- Coyote time with jump input: if is_on_ground became
\* false N frames ago, N < 6, whatever made it false, with no jump since,
\* and a jump press arrives now, the next Playing frame triggers a jump
\* with player_vy = JUMP_STRENGTH; with N >= 6 it triggers no such jump.
C5_AsStated == CoyoteJump({"frame", "reset"})

\* C5 -- Coyote time with jump input, amended: the same for an is_on_ground
\* that a Playing frame turned false (the player left a platform), N being
\* 1 for a press that arrives right after that frame.  The reset_player of
\* a restart or next-level event also turns is_on_ground false, and sets the
\* coyote timer to 0: no jump with JUMP_STRENGTH follows it.
C5_CoyoteJump == CoyoteJump({"frame"})

\* five frames after walking off a platform a jump press arrives
C5_Witness ==
    /\ frames > 0 /\ frames < MaxFrames
    /\ PressedAirborne({"frame"})
    /\ airborne_frames = COYOTE_TIME - 1 /\ coyote_timer = 2

\* C6 -- Restart.  In a Dead or Won session the restart key handler leaves
\* the session Playing on level 0 with lives = 3, score = 0, game_over and
\* game_won clear, the countdown at global_time_limit, collected_count = 0
\* and the gems of level 0 in place and uncollected, and the player at the
\* start position of level 0 with player_vy = 0; in a Playing session it
\* changes nothing.
C6_Restart ==
    LET r == KeyDownR(Sess) IN
    IF game_over \/ game_won
    THEN /\ ~r.game_over /\ ~r.game_won
         /\ r.current_level = 0 /\ r.lives = 3 /\ r.score = 0
         /\ r.global_timer = global_time_limit
         /\ r.collected_count = 0
         /\ r.total_collectibles = Level0.num_collectibles
         /\ \A i \in 1 .. Level0.num_collectibles :
                /\ ~r.collectibles[i].collected
                /\ r.collectibles[i].rect = Level0.level_collectibles[i].rect
         /\ r.player.x = Level0.start_pos.x /\ r.player.y = Level0.start_pos.y
         /\ r.player_vy = 0
    ELSE r = Sess

\* a session restarted after frames were run: only a restart puts the
\* countdown back to its limit
C6_Witness ==
    /\ frames > 0 /\ Playing /\ global_timer = global_time_limit
    /\ current_level = 0 /\ lives = 3 /\ score = 0 /\ collected_count = 0
    /\ player.x = Level0.start_pos.x /\ player.y = Level0.start_pos.y

C8_Countdown ==
    /\ Playing => global_timer > 0
    /\ Playing =>
           \A ticks \in TickSet, rnd \in RandSet :
               LET e == AppIterate(Sess, keystate, ticks, rnd) IN
               /\ e.global_timer = global_timer - 1
               /\ e.global_timer <= 0 => e.game_over

\* the countdown has run out in a frame of a player with all lives
C8_Witness ==
    /\ frames > 0 /\ game_over /\ global_timer = 0 /\ lives = 3

\* C9 as stated -- every call of load_level with a valid index, the one of
\* the next-level handler included, puts the countdown back to the time
\* limit, so a newly loaded level starts with the full time.
C9_AsStated ==
    /\ \A n \in 0 .. MAX_LEVELS - 1 :
           load_level(Sess, n).global_timer = global_time_limit
    /\ (game_won /\ current_level < MAX_LEVELS - 1) =>
           KeyDownN(Sess).global_timer = global_time_limit

\* C9 -- amended: load_level leaves the countdown as it is, and so does the
\* next-level handler: the one countdown of global_time_limit runs on
\* across the levels.  It is set to global_time_limit by SDL_AppInit and by
\* the restart handler of a Dead or Won session only.
C9_TimerKept ==
    /\ \A n \in 0 .. MAX_LEVELS - 1 :
           load_level(Sess, n).global_timer = global_timer
    /\ KeyDownN(Sess).global_timer = global_timer
    /\ SDL_AppInit.global_timer = global_time_limit
    /\ (game_over \/ game_won) => KeyDownR(Sess).global_timer = global_time_limit

\* level 1 entered from the won level 0 with the countdown where level 0
\* left it, 458 frames after startup
C9_Witness ==
    /\ frames > 0 /\ Playing /\ current_level = 1
    /\ player = [Level1.start_pos EXCEPT !.w = 24 * U, !.h = 40 * U]
    /\ global_timer = global_time_limit - 458

\* C10 -- Particle pool bound.  After any sequence of add_particle and
\* update_particles calls at most MAX_PARTICLES = 100 particles are active; a
\* spawn into a pool with a free slot makes exactly one more particle
\* active and touches no other slot, and a spawn into a full pool leaves the
\* pool as it is: spawns beyond the capacity, none expiring, leave exactly
\* 100 active.
C10_PoolBound ==
    /\ ActiveCount(particles) <= 100
    /\ \A px \in SpawnXs, plife \in SpawnLives :
           LET q == add_particle(particles, px, 750 * U, 0, (-2) * U,
                                 200, 200, 255, plife)
           IN IF ActiveCount(particles) = 100
              THEN q = particles
              ELSE /\ ActiveCount(q) = ActiveCount(particles) + 1
                   /\ \A i \in 1 .. MAX_PARTICLES :
                          particles[i].active => q[i] = particles[i]

\* a full pool after three spawns and no step: the pool started with two
\* free slots, so the third spawn was dropped
C10_Witness ==
    /\ frames = 3 /\ ActiveCount(particles) = 100
    /\ \A i \in 1 .. MAX_PARTICLES : particles[i].life = particles[i].max_life

\* C11 -- Particle lifecycle.  A particle add_particle puts into a free slot
\* with life = L, L a positive whole number, is active with life L - k after
\* each of the first L - 1 calls of update_particles and is inactive, with
\* life 0, after the L-th; every call of update_particles takes exactly 1
\* off the life of every active particle and leaves inactive slots alone.
C11_ParticleLifecycle ==
    /\ \A px \in SpawnXs, plife \in SpawnLives :
           LET i == FirstInactive(particles)
               spawned == add_particle(particles, px, 750 * U, 0, (-2) * U,
                                       200, 200, 255, plife)
           IN  i # 0 =>
               /\ spawned[i].active /\ spawned[i].life = plife
               /\ \A k \in 1 .. plife :
                      LET q == update_particles_times(spawned, k)[i] IN
                      /\ q.life = plife - k
                      /\ q.active <=> (k < plife)
    /\ \A i \in 1 .. MAX_PARTICLES :
           LET q == update_particles(particles)[i] IN
           IF particles[i].active
           THEN /\ q.life = particles[i].life - 1
                /\ q.active <=> (q.life > 0)
           ELSE q = particles[i]

\* a particle spawned with life 3 has been stepped three times and is gone,
\* while one spawned with life 3 and stepped less is still active
C11_Witness ==
    /\ frames > 0
    /\ \E i \in 1 .. MAX_PARTICLES :
           /\ particles[i].max_life = 3 /\ particles[i].life = 0
           /\ ~particles[i].active

\* C12 -- Moving platform bounce.  One call of update_moving_platforms adds
\* vx to rect.x and vy to rect.y of each of the num_moving_platforms
\* platforms and then negates the velocity of an axis exactly when the
\* position after the move is at or beyond either bound of the axis; the
\* position is not clamped, the bounds and the size stay, the slots past
\* num_moving_platforms and the rest of the session are untouched.  With
\* x-range [100, 200], vx = +5 and x = 198 the step gives x = 203, vx = -5.
\* (The source skips the test on an axis whose velocity is 0; negating 0
\* changes nothing.)
C12_PlatformBounce ==
    LET t == update_moving_platforms(Sess) IN
    /\ t = [Sess EXCEPT !.moving_platforms = t.moving_platforms]
    /\ \A i \in 1 .. MAX_MOVING :
           LET m == moving_platforms[i]
               q == t.moving_platforms[i]
           IN  IF i <= num_moving_platforms
               THEN /\ q.rect.x = m.rect.x + m.vx
                    /\ q.rect.y = m.rect.y + m.vy
                    /\ q.vx = IF q.rect.x <= m.start_x \/ q.rect.x >= m.end_x
                              THEN -m.vx ELSE m.vx
                    /\ q.vy = IF q.rect.y <= m.start_y \/ q.rect.y >= m.end_y
                              THEN -m.vy ELSE m.vy
                    /\ (m.start_x < q.rect.x /\ q.rect.x < m.end_x) => q.vx = m.vx
                    /\ q = [m EXCEPT !.rect.x = q.rect.x, !.rect.y = q.rect.y,
                                     !.vx = q.vx, !.vy = q.vy]
                    /\ ( m.start_x = 100 * U /\ m.end_x = 200 * U
                         /\ m.vx = 5 * U /\ m.rect.x = 198 * U )
                       => (q.rect.x = 203 * U /\ q.vx = (-5) * U)
               ELSE q = m

\* the platform of the example after its step: past the bound at 203,
\* now moving left
C12_Witness ==
    /\ frames = 1
    /\ moving_platforms[1].start_x = 100 * U /\ moving_platforms[1].end_x = 200 * U
    /\ moving_platforms[1].rect.x = 203 * U
    /\ moving_platforms[1].vx = (-5) * U

\* C13 -- Collision symmetry.  For all rectangles a and b with corners and
\* sizes in a bounded set, zero width and zero height included,
\* is_colliding(a, b) = is_colliding(b, a); here a is the player and b the
\* first collectible, drawn independently.
C13_CollisionSymmetry ==
    \A i \in 1 .. MAX_COLLECTIBLES :
           is_colliding(player, collectibles[i].rect)
               <=> is_colliding(collectibles[i].rect, player)

\* update_collectibles has found the player overlapping the first
\* collectible, and the overlap holds in both orders
C13_Witness ==
    /\ frames = 1
    /\ collectibles[1].collected
    /\ is_colliding(collectibles[1].rect, player)
    /\ is_colliding(player, collectibles[1].rect)

\* two rectangles share an edge coordinate: one ends where the other begins
SharesEdge(a, b) ==
    \/ a.x + a.w = b.x
    \/ b.x + b.w = a.x
    \/ a.y + a.h = b.y
    \/ b.y + b.h = a.y

\* C14 -- Edge-touch non-overlap.  Two rectangles of which one ends exactly
\* where the other begins (a.x + a.w = b.x, a.y + a.h = b.y, or the
\* mirrored cases) are not overlapping for is_colliding, in either order,
\* and update_collectibles does not collect a collectible the player only
\* touches; a player standing exactly on top of any platform of any level
\* (player.y + player.h = platform.y) does not collide with it.
C14_EdgeTouch ==
    /\ SharesEdge(player, collectibles[1].rect)
           => /\ ~is_colliding(player, collectibles[1].rect)
              /\ ~is_colliding(collectibles[1].rect, player)
              /\ \A rnd \in RandSet :
                     update_collectibles(Sess, rnd).collectibles[1].collected
                         = collectibles[1].collected
    /\ \A n \in 0 .. MAX_LEVELS - 1 :
           \A i \in 1 .. LevelAt(n).num_platforms :
               LET p == LevelAt(n).platforms[i]
                   resting == [x |-> p.x, y |-> p.y - 40 * U,
                               w |-> 24 * U, h |-> 40 * U]
               IN  ~is_colliding(resting, p)

\* update_collectibles has run with the player's right edge on the left
\* edge of the first collectible, the two level with each other, and has
\* not collected it
C14_Witness ==
    /\ frames = 1
    /\ player.w > 0 /\ player.h > 0
    /\ collectibles[1].rect.w > 0 /\ collectibles[1].rect.h > 0
    /\ player.x + player.w = collectibles[1].rect.x
    /\ player.y = collectibles[1].rect.y
    /\ ~collectibles[1].collected

\* C15 -- load_level out of range.  A call load_level(n) with n outside
\* 0 .. MAX_LEVELS - 1, above the range or negative, is a no-op: it leaves
\* collectibles, collected_count, total_collectibles, moving_platforms,
\* num_moving_platforms and has_double_jump, and the rest of the session,
\* as they were.  (Stated as the claim has it; the source returns early
\* only for n >= MAX_LEVELS.)
C15_AsStated ==
    \A n \in LevelNums :
        (n < 0 \/ n >= MAX_LEVELS)
            => \A t \in load_level_outcomes(Sess, n) : t = Sess

\* C15, what the source does guarantee -- above the range load_level is a
\* no-op, in the range it loads levels[n], and for a negative n the call
\* leaves has_double_jump clear and collected_count = 0 whatever it read
C15_AboveRangeOnly ==
    \A n \in LevelNums :
        /\ n >= MAX_LEVELS => load_level_outcomes(Sess, n) = {Sess}
        /\ (0 <= n /\ n < MAX_LEVELS)
               => load_level_outcomes(Sess, n)
                      = {load_level_from(Sess, LevelAt(n), n)}
        /\ n < 0 => \A t \in load_level_outcomes(Sess, n) :
                        ~t.has_double_jump /\ t.collected_count = 0

\* a session on level 1 or later after a call of load_level with a negative
\* argument: double jump switched off and no collectibles left, which no
\* level of the catalog gives
C15_Witness ==
    /\ frames > 0
    /\ current_level > 0
    /\ ~has_double_jump
    /\ total_collectibles = 0

\* the session t holds level n as init_levels wrote it: every collectible
\* of the level uncollected at its template rectangle, the counts of the
\* level, every moving platform at its template position and velocity
FreshlyLoaded(t, n) ==
    /\ t.total_collectibles = LevelAt(n).num_collectibles
    /\ t.collected_count = 0
    /\ \A i \in 1 .. LevelAt(n).num_collectibles :
           /\ ~t.collectibles[i].collected
           /\ t.collectibles[i].rect = LevelAt(n).level_collectibles[i].rect
    /\ t.num_moving_platforms = LevelAt(n).num_moving
    /\ \A i \in 1 .. LevelAt(n).num_moving :
           t.moving_platforms[i] = LevelAt(n).level_moving_platforms[i]

\* C16 -- Template immutability.  The level catalog is written by
\* init_levels alone, once, from SDL_AppInit; frames and key events write
\* the session copies only (collectibles[i].collected, the positions and
\* velocities in moving_platforms).  So in every state frames and key
\* events reach, whatever was collected and wherever the platforms are,
\* a load of any level n, by load_level or through the restart and
\* next-level handlers, leaves all collectibles of the level uncollected,
\* collected_count = 0, total_collectibles the level's count and every
\* moving platform at its template position and velocity.
C16_TemplateImmutable ==
    /\ \A n \in 0 .. MAX_LEVELS - 1 : FreshlyLoaded(load_level(Sess, n), n)
    /\ (game_over \/ game_won) => FreshlyLoaded(KeyDownR(Sess), 0)
    /\ (game_won /\ current_level < MAX_LEVELS - 1)
           => FreshlyLoaded(KeyDownN(Sess), current_level + 1)

\* the next-level handler has loaded level 1 after all collectibles of
\* level 0 were collected and its platform had moved, and a frame has
\* since moved a platform of level 1 off its template position
C16_Witness ==
    /\ frames > 1
    /\ current_level = 1 /\ score >= 300
    /\ collected_count = 0
    /\ moving_platforms[1] # LevelAt(1).level_moving_platforms[1]

\* C17 -- Frames outside Playing run no simulation.  In a session that is
\* Dead or Won, a call of SDL_AppIterate, whatever keys are held, leaves
\* player, player_vy, lives, score, global_timer, current_level, game_over,
\* game_won, collectibles and moving_platforms (every session variable
\* but player_rotation and the particle pool) as they were; player_rotation
\* advances by SPIN_SPEED, wrapped at 360, when game_over is set and stays
\* otherwise.  A jump key press changes nothing, so jump_buffer is not set;
\* a jump key release and, unless game_won is set, the N key leave the
\* session Dead or Won.  The R key, and the N key when Won below the last
\* level, are the events that clear a flag.
C17_NoSimulation ==
    (game_over \/ game_won) =>
        /\ \A keys \in [left : BOOLEAN, right : BOOLEAN], ticks \in TickSet,
                rnd \in RandSet :
               LET t == AppIterate(Sess, keys, ticks, rnd) IN
               /\ t = [Sess EXCEPT !.player_rotation = t.player_rotation,
                                   !.particles = t.particles]
               /\ t.player_rotation =
                      IF game_over THEN (player_rotation + SPIN_SPEED) % 360
                      ELSE player_rotation
        /\ KeyDownJump(Sess) = Sess
        /\ KeyUpJump(Sess) = [Sess EXCEPT !.jump_held = FALSE]
        /\ ~game_won => KeyDownN(Sess) = Sess
        /\ ~KeyDownR(Sess).game_over /\ ~KeyDownR(Sess).game_won
        /\ (game_won /\ current_level < MAX_LEVELS - 1)
               => ~KeyDownN(Sess).game_won

\* a Dead session two frames after the frame that ended the game: the
\* rotation has advanced twice and the jump buffer is empty
C17_Witness ==
    /\ frames > 2
    /\ game_over /\ ~game_won
    /\ player_rotation = 2 * SPIN_SPEED
    /\ jump_buffer = 0

\* the collectibles of session s that update_collectibles is to pick up:
\* uncollected and overlapping the player
Pickups(s) ==
    {i \in 1 .. s.total_collectibles :
        ~s.collectibles[i].collected
        /\ is_colliding(s.player, s.collectibles[i].rect)}

\* C18 -- Collectible pickup.  In every Playing frame, the call of
\* update_collectibles marks collected each collectible that is uncollected
\* and overlaps the player, adds 1 to collected_count and exactly 100 to
\* score for each of them, and leaves every other collectible, collected
\* ones included, and the rest of the session but the particle pool as it
\* was.  A collected collectible is still collected after any frame and
\* after a jump key event, so only a level load (restart, next level)
\* makes it uncollected; collected_count is the number of collected
\* collectibles of the level.
C18_Pickup ==
    /\ collected_count
           = Cardinality({i \in 1 .. total_collectibles : collectibles[i].collected})
    /\ \A i \in 1 .. total_collectibles :
           collectibles[i].collected
               => /\ \A ticks \in TickSet, rnd \in RandSet :
                         AppIterate(Sess, keystate, ticks, rnd).collectibles[i].collected
                  /\ KeyDownJump(Sess).collectibles[i].collected
                  /\ KeyUpJump(Sess).collectibles[i].collected
    /\ Playing =>
           \A ticks \in TickSet, rnd \in RandSet :
               LET pre == AfterGoal(Sess, keystate, ticks, rnd)
                   post == update_collectibles(pre, rnd)
                   n == Cardinality(Pickups(pre))
               IN  /\ post.collected_count = pre.collected_count + n
                   /\ post.score = pre.score + 100 * n
                   /\ \A i \in 1 .. MAX_COLLECTIBLES :
                          post.collectibles[i] =
                              IF i \in Pickups(pre)
                              THEN [pre.collectibles[i] EXCEPT !.collected = TRUE]
                              ELSE pre.collectibles[i]
                   /\ post = [pre EXCEPT !.collectibles = post.collectibles,
                                         !.collected_count = post.collected_count,
                                         !.score = post.score,
                                         !.particles = post.particles]

\* the first gem of level 0 was picked up a frame or more ago and has been
\* scored once: the frames since, the player still inside it, have not
\* scored it again
C18_Witness ==
    /\ frames >= 3
    /\ current_level = 0 /\ global_timer = 7103 - frames
    /\ collectibles[1].collected
    /\ is_colliding(player, collectibles[1].rect)
    /\ collected_count = 1 /\ score = 100

\* C19 -- Invincibility gates hazards.  In every Playing frame the
\* invincibility step takes exactly 1 off invincibility_timer when it is
\* positive, leaves it at 0 otherwise and changes nothing else; the timer
\* is never below 0.  When the timer is still greater than 0 after that
\* step, the hazard step changes nothing, the player overlapping a hazard
\* rectangle or not: no life is taken, the player is not moved.  The
\* frame ends with the decremented timer unless it took a life (a hazard
\* hit with the timer at 0, or a fall), whose respawn sets the timer anew.
C19_InvincibilityGate ==
    /\ invincibility_timer >= 0
    /\ Playing =>
           \A ticks \in TickSet, rnd \in RandSet :
               LET v == AfterVertical(Sess, keystate, ticks, rnd)
                   a == AfterInvincibility(Sess, keystate, ticks, rnd)
                   l == AfterLava(Sess, keystate, ticks, rnd)
                   e == AppIterate(Sess, keystate, ticks, rnd)
               IN  /\ v.invincibility_timer = invincibility_timer
                   /\ a.invincibility_timer =
                          IF invincibility_timer > 0
                          THEN invincibility_timer - 1 ELSE 0
                   /\ a = [v EXCEPT !.invincibility_timer = a.invincibility_timer]
                   /\ a.invincibility_timer > 0 => l = a
                   /\ (a.invincibility_timer > 0 /\ ~FellOff(l))
                          => /\ e.lives = lives
                             /\ e.player.x = a.player.x /\ e.player.y = a.player.y
                   /\ e.lives = lives
                          => e.invincibility_timer = a.invincibility_timer
                   /\ e.invincibility_timer >= 0

\* a frame has left the player inside a lava square with the life it had:
\* the invincibility of the last respawn was still running
C19_Witness ==
    /\ frames > 0
    /\ Playing /\ OnHazard(Sess)
    /\ lives = 2
    /\ invincibility_timer > 0 /\ invincibility_timer < 120

\* C20 -- Fall-through-floor.  In every Playing frame in which player.y is
\* greater than SCREEN_HEIGHT + 100 at the fall check, the check takes
\* exactly 1 off lives; if lives is then 0 the game is Dead (game_over set,
\* the player left where it fell), otherwise the player is at the start
\* position of the level with player_vy = 0 and invincibility_timer = 60;
\* nothing else changes, and the frame ends with these values.  A Playing
\* session has at least one life.
C20_FallThroughFloor ==
    /\ Playing => lives >= 1
    /\ Playing =>
           \A ticks \in TickSet, rnd \in RandSet :
               LET pre == AfterLava(Sess, keystate, ticks, rnd)
                   post == AfterFall(Sess, keystate, ticks, rnd)
                   e == AppIterate(Sess, keystate, ticks, rnd)
                   start == LevelAt(current_level).start_pos
               IN  pre.player.y > (SCREEN_HEIGHT + 100) * U =>
                       /\ post.lives = pre.lives - 1
                       /\ e.lives = lives - 1
                       /\ IF post.lives = 0
                          THEN /\ post = [pre EXCEPT !.lives = 0, !.game_over = TRUE]
                               /\ e.game_over /\ e.player = pre.player
                          ELSE /\ post.lives > 0
                               /\ post = [pre EXCEPT !.lives = @ - 1,
                                                     !.player.x = start.x,
                                                     !.player.y = start.y,
                                                     !.player_vy = 0,
                                                     !.invincibility_timer = 60]
                               /\ e.player.x = start.x /\ e.player.y = start.y
                               /\ e.player_vy = 0
                               /\ e.invincibility_timer = 60

\* a frame has found the player below the screen with 3 lives: 2 lives are
\* left, the player is at the start position of level 0, at rest, with 60
\* frames of invincibility
C20_Witness ==
    /\ frames = 1
    /\ Playing /\ lives = 2
    /\ player.x = LevelAt(0).start_pos.x /\ player.y = LevelAt(0).start_pos.y
    /\ player_vy = 0 /\ invincibility_timer = 60
    /\ collected_count = 1

\* C21 -- Double jump per level.  In every state frames and key events
\* reach, has_double_jump is set exactly when current_level > 0, and it is
\* so again after the restart handler (level 0, flag clear) and after the
\* next-level handler (flag set on every level it enters): load_level is
\* always called with level_num = current_level and sets the flag to
\* (level_num > 0).
C21_DoubleJumpPerLevel ==
    /\ has_double_jump <=> (current_level > 0)
    /\ current_level \in 0 .. MAX_LEVELS - 1
    /\ LET r == KeyDownR(Sess)
           n == KeyDownN(Sess)
       IN  /\ r.has_double_jump <=> (r.current_level > 0)
           /\ (game_over \/ game_won)
                  => (r.current_level = 0 /\ ~r.has_double_jump)
           /\ n.has_double_jump <=> (n.current_level > 0)
           /\ (game_won /\ current_level < MAX_LEVELS - 1)
                  => (n.current_level = current_level + 1 /\ n.has_double_jump)

\* back on level 0 after a restart from the last level: the double jump is
\* off again, while the slots of moving_platforms that level 0 does not
\* use still hold platforms of level 5
C21_Witness ==
    /\ Playing /\ current_level = 0 /\ ~has_double_jump
    /\ global_timer = global_time_limit
    /\ num_moving_platforms = 1
    /\ moving_platforms[5] # ZeroMP

OnPlatform(s) ==
    \/ \E i \in 1 .. LevelAt(s.current_level).num_platforms :
           is_colliding(s.player, LevelAt(s.current_level).platforms[i])
    \/ \E i \in 1 .. s.num_moving_platforms :
           is_colliding(s.player, s.moving_platforms[i].rect)

\* C23 -- Horizontal collision.  In every Playing frame, whatever keys are
\* held: if the player, after the horizontal move and the clamp to the
\* screen, overlaps a platform or a moving platform of the current level,
\* player.x after the horizontal phase is its value from before the move;
\* if it overlaps none, the moved and clamped x is kept.  Nothing but
\* player.x differs between the clamped and the final session.
C23_HorizontalCollision ==
    Playing =>
        \A keys \in [left : BOOLEAN, right : BOOLEAN], ticks \in TickSet,
            rnd \in RandSet :
            LET c == ClampHigh(ClampLow(Moved(TimerPhase(Sess), keys, ticks, rnd)))
                e == AfterHorizontal(Sess, keys, ticks, rnd)
            IN  /\ e.player.x = IF OnPlatform(c) THEN player.x ELSE c.player.x
                /\ e = [c EXCEPT !.player.x = e.player.x]

\* frames have run with the right key held next to the left side of the
\* second platform of level 0, the player level with it: each has moved
\* the player into the platform and put it back
C23_Witness ==
    /\ frames > 1
    /\ Playing /\ keystate.right /\ ~keystate.left
    /\ global_timer = 7109 - frames
    /\ player.x = 37500
    /\ OnPlatform([Sess EXCEPT !.player.x = @ + MOVE_SPEED])

\* C24 -- Screen clamp.  On the levels of init_levels, player.x is in
\* [0, w - player.w] in every state frames and key events reach, and in
\* the frame about to run after the horizontal phase (input, clamp,
\* collision revert), after the vertical phase (the carry player.x += vx
\* of a moving platform, which is not clamped again) and at its end
\* (respawn included).  The level data leave room for it: every start
\* position is on the screen, and a player overlapping a horizontally
\* moving platform anywhere on its track stays on the screen when carried.
C24_ScreenClamp ==
    LET OnScreen(x) == 0 <= x /\ x <= w * U - 24 * U
        Speed(v) == IF v < 0 THEN 0 - v ELSE v
    IN
    /\ OnScreen(player.x) /\ player.w = 24 * U
    /\ \A keys \in [left : BOOLEAN, right : BOOLEAN], ticks \in TickSet,
           rnd \in RandSet :
           /\ Playing => OnScreen(AfterHorizontal(Sess, keys, ticks, rnd).player.x)
           /\ Playing => OnScreen(AfterVertical(Sess, keys, ticks, rnd).player.x)
           /\ OnScreen(AppIterate(Sess, keys, ticks, rnd).player.x)
    /\ OnScreen(KeyDownR(Sess).player.x) /\ OnScreen(KeyDownN(Sess).player.x)
    /\ \A i \in 1 .. num_moving_platforms :
           LET m == moving_platforms[i] IN
           m.vx # 0 => /\ m.start_x - Speed(m.vx) <= m.rect.x
                       /\ m.rect.x <= m.end_x + Speed(m.vx)
    /\ \A n \in 0 .. MAX_LEVELS - 1 :
           /\ OnScreen(LevelAt(n).start_pos.x)
           /\ \A i \in 1 .. LevelAt(n).num_moving :
                  LET m == LevelAt(n).level_moving_platforms[i] IN
                  m.vx # 0 =>
                      /\ OnScreen(m.start_x - 2 * Speed(m.vx) - 24 * U)
                      /\ OnScreen(m.end_x + m.rect.w + 2 * Speed(m.vx))

\* frames have run with the left key held at the left edge of the screen:
\* each moved the player to x = -MOVE_SPEED and the clamp put it back
C24_Witness ==
    /\ frames > 1
    /\ Playing /\ keystate.left /\ ~keystate.right
    /\ global_timer = 7190 - frames
    /\ player.x = 0

C26_CoyotePreferred ==
    Playing =>
        \A keys \in [left : BOOLEAN, right : BOOLEAN], ticks \in TickSet,
           rnd \in RandSet :
            LET c == AfterCoyote(Sess, keys, ticks, rnd)
                j == AfterJump(Sess, keys, ticks, rnd)
                e == AppIterate(Sess, keys, ticks, rnd)
                d == AfterJump(KeyDownJump(e), keys, ticks, rnd)
            IN  (/\ jump_buffer > 0 /\ c.coyote_timer > 0
                 /\ c.has_double_jump /\ ~c.double_jump_used)
                => /\ j.player_vy = JUMP_STRENGTH
                   /\ j.coyote_timer = 0
                   /\ ~j.double_jump_used /\ ~e.double_jump_used
                   /\ j.jump_buffer = 0
                   /\ (~e.game_over /\ ~e.game_won /\ ~e.is_on_ground)
                      => /\ d.player_vy = (JUMP_STRENGTH * 8) \div 10
                         /\ d.double_jump_used

\* a frame made a jump of full strength with the jump key held on a level
\* with the double jump: the player is in the air, the double jump unused
C26_Witness ==
    /\ frames > 0 /\ Playing /\ has_double_jump /\ ~double_jump_used
    /\ player_vy = JUMP_STRENGTH + GRAVITY
    /\ coyote_timer = 0 /\ jump_buffer = 0 /\ ~is_on_ground /\ jump_held

\* C27 as stated -- in a Playing frame with the jump key not held and
\* player_vy < -2.0 before gravity, player_vy is halved before gravity is
\* added, and otherwise the frame applies no damping; and a released jump
\* is damped once: the frame after a damped frame, with no key event in
\* between, applies no damping.
C27_AsStated ==
    Playing =>
        \A keys \in [left : BOOLEAN, right : BOOLEAN], ticks \in TickSet,
           rnd \in RandSet :
            LET j == AfterJump(Sess, keys, ticks, rnd)
                v == VariableJumpPhase(j)
                e == AppIterate(Sess, keys, ticks, rnd)
                j2 == AfterJump(e, keys, ticks, rnd)
            IN  /\ IF ~j.jump_held /\ j.player_vy < (-2) * U
                   THEN v = [j EXCEPT !.player_vy = j.player_vy \div 2]
                   ELSE v = j
                /\ (/\ ~j.jump_held /\ j.player_vy < (-2) * U
                    /\ ~e.game_over /\ ~e.game_won)
                   => ~(~j2.jump_held /\ j2.player_vy < (-2) * U)

\* C27 -- Variable jump height.  In a Playing frame with jump_held clear
\* and player_vy < -2.0 after the jump phase, player_vy is halved and then
\* gravity is added; with jump_held set, or player_vy >= -2.0, the frame
\* applies no damping.  The rule looks at the flag and the speed only, not
\* at the release: it applies again in the next frame when the halved
\* speed plus gravity is still below -2.0 (that is, when the speed was
\* below -4.4), so a jump released early is halved in successive frames
\* until player_vy >= -2.0.  A damped frame leaves the player rising, and
\* more slowly than before.
C27_VariableJump ==
    Playing =>
        \A keys \in [left : BOOLEAN, right : BOOLEAN], ticks \in TickSet,
           rnd \in RandSet :
            LET j == AfterJump(Sess, keys, ticks, rnd)
                v == VariableJumpPhase(j)
                g == AfterGravity(Sess, keys, ticks, rnd)
                e == AppIterate(Sess, keys, ticks, rnd)
                j2 == AfterJump(e, keys, ticks, rnd)
                damped(t) == ~t.jump_held /\ t.player_vy < (-2) * U
            IN  /\ j.jump_held = jump_held
                /\ IF damped(j)
                   THEN v = [j EXCEPT !.player_vy = j.player_vy \div 2]
                   ELSE v = j
                /\ g.player_vy = IF v.player_vy + GRAVITY > MAX_FALL_SPEED
                                 THEN MAX_FALL_SPEED
                                 ELSE v.player_vy + GRAVITY
                /\ damped(j) => j.player_vy < g.player_vy /\ g.player_vy < 0
                /\ (damped(j) /\ ~e.game_over /\ ~e.game_won
                    /\ e.player_vy = g.player_vy /\ e.jump_buffer = 0)
                   => (damped(j2) <=> j.player_vy < (-22) * (U \div 5))

\* a jump from the ground released before its first frame has been halved
\* in two successive frames: -8.0 -> -4.0 + 0.2 = -3.8 -> -1.9 + 0.2 = -1.7
C27_Witness ==
    /\ frames > 1 /\ Playing /\ ~jump_held /\ ~is_on_ground
    /\ player_vy = (JUMP_STRENGTH \div 2 + GRAVITY) \div 2 + GRAVITY
    /\ jump_buffer = 0 /\ coyote_timer = 0

\* C28 -- Particle spawn placement.  A call of add_particle on a pool with
\* an inactive slot changes exactly one slot, the inactive slot of lowest
\* index (a slot freed by an expired particle in front of active ones
\* included): it holds the position, velocity, colour and life of the
\* call, max_life = life and active; every other slot, active or not, is
\* as before.  On a pool without an inactive slot the call changes nothing.
C28_SpawnPlacement ==
    \A px \in SpawnXs, plife \in SpawnLives :
        LET q == add_particle(particles, px, 750 * U, 0, (-2) * U,
                              200, 200, 255, plife)
            free == {i \in 1 .. MAX_PARTICLES : ~particles[i].active}
        IN  /\ free = {} => q = particles
            /\ \A i \in free :
                   (\A j \in free : i <= j) =>
                       /\ q[i] = [x |-> px, y |-> 750 * U, vx |-> 0, vy |-> (-2) * U,
                                  r |-> 200, g |-> 200, b |-> 255,
                                  life |-> plife, max_life |-> plife, active |-> TRUE]
                       /\ \A k \in 1 .. MAX_PARTICLES : k # i => q[k] = particles[k]
            /\ \A k \in 1 .. MAX_PARTICLES : particles[k].active => q[k] = particles[k]

\* slot 1 was freed by a particle of life 1 while the particle of life 3 in
\* slot 2 lived on, and the next spawn went into slot 1, not into slot 3
C28_Witness ==
    /\ frames = 4
    /\ particles[1].active /\ particles[1].life = particles[1].max_life
    /\ particles[2].active /\ particles[2].max_life = 3 /\ particles[2].life = 2
    /\ ~particles[3].active /\ particles[3] = ZeroParticle

\* C29 as stated -- the session is in exactly one of Playing, Dead and Won:
\* game_over and game_won are never both set, in no state frames and key
\* events reach.
C29_AsStated ==
    ~(game_over /\ game_won)

\* C29 -- what the frame does with the two flags.  The countdown sets
\* game_over at the top of the frame and the rest of the frame still runs,
\* so the frame in which the countdown runs out sets game_won as well when
\* the player reaches the goal in it with all gems collected: a Playing
\* frame ends with both flags set exactly in that case, and a session has
\* both flags set only with the countdown at or below zero.  The loss of
\* the last life never coincides with the goal on the levels of
\* init_levels: no player rectangle overlaps both a lava square and the
\* goal, and the goal lies above the line below which a fall costs a life.
\* From a session with both flags the next-level handler clears game_won
\* only and leaves a Dead session on the next level; the restart handler
\* clears both.
C29_FlagsAtTimeout ==
    /\ (game_over /\ game_won) => global_timer <= 0
    /\ Playing =>
           \A keys \in [left : BOOLEAN, right : BOOLEAN], ticks \in TickSet,
              rnd \in RandSet :
               LET f == AfterFall(Sess, keys, ticks, rnd)
                   e == AppIterate(Sess, keys, ticks, rnd)
               IN  /\ (e.game_over /\ e.game_won)
                       <=> (global_timer - 1 <= 0 /\ GoalReached(f))
                   /\ e.game_won <=> GoalReached(f)
                   /\ e.game_over <=> (global_timer - 1 <= 0 \/ e.lives <= 0)
                   /\ (e.lives <= 0 /\ global_timer - 1 > 0) => ~e.game_won
    /\ (game_over /\ game_won) =>
           /\ ~KeyDownR(Sess).game_over /\ ~KeyDownR(Sess).game_won
           /\ current_level < MAX_LEVELS - 1 =>
                  KeyDownN(Sess).game_over /\ ~KeyDownN(Sess).game_won
    /\ \A n \in 0 .. MAX_LEVELS - 1 :
           LET level == LevelAt(n) IN
           /\ level.goal.y + level.goal.h <= (h + 100) * U
           /\ \A i \in 1 .. level.num_lava :
                  LET q == level.lava_squares[i]
                      reach == [x |-> q.x - 24 * U, y |-> q.y - 40 * U,
                                w |-> q.w + 48 * U, h |-> q.h + 80 * U]
                  IN ~is_colliding(reach, level.goal)

\* the goal of level 0 was reached, with its three gems, in the frame in
\* which the countdown ran out: the session is Dead and Won at once
C29_Witness ==
    /\ frames > 0 /\ game_over /\ game_won
    /\ global_timer = 0 /\ current_level = 0
    /\ collected_count = 3 /\ score = 300 + 1000 + 3 * 500 /\ lives = 3

\* C30 -- Lives invariant.  In every state frames and key events reach
\* 0 <= lives <= 3, a Playing session has a life left, and lives = 0
\* implies game_over.  The frame about to run takes at most one life: the
\* lava phase takes at most one (the scan ends at its first hit), the fall
\* phase at most one, and never both, because a hit with lives to spare
\* puts the player at the start position, which is on the screen, and on
\* the levels of init_levels a player that overlaps a lava square is not
\* below the line of the fall test.  The next-level handler keeps lives and
\* the restart handler sets lives = 3.
C30_LivesInvariant ==
    /\ lives \in 0 .. 3
    /\ Playing => lives >= 1
    /\ lives = 0 => game_over
    /\ KeyDownN(Sess).lives = lives
    /\ KeyDownR(Sess).lives = IF game_over \/ game_won THEN 3 ELSE lives
    /\ Playing =>
           \A keys \in [left : BOOLEAN, right : BOOLEAN], ticks \in TickSet,
              rnd \in RandSet :
               LET i == AfterInvincibility(Sess, keys, ticks, rnd)
                   l == AfterLava(Sess, keys, ticks, rnd)
                   f == AfterFall(Sess, keys, ticks, rnd)
                   e == AppIterate(Sess, keys, ticks, rnd)
               IN  /\ i.lives = lives
                   /\ l.lives = IF LavaHit(i) THEN lives - 1 ELSE lives
                   /\ f.lives = IF FellOff(l) THEN l.lives - 1 ELSE l.lives
                   /\ ~(LavaHit(i) /\ FellOff(l))
                   /\ e.lives = f.lives
                   /\ e.lives \in {lives, lives - 1}
                   /\ e.lives = 0 => e.game_over
    /\ \A n \in 0 .. MAX_LEVELS - 1 :
           LET level == LevelAt(n) IN
           /\ level.start_pos.y <= (h + 100) * U
           /\ \A k \in 1 .. level.num_lava :
                  level.lava_squares[k].y + level.lava_squares[k].h <= (h + 100) * U

\* the last life was lost in a frame, with time left on the countdown
C30_Witness ==
    /\ frames > 0 /\ lives = 0 /\ game_over /\ ~game_won
    /\ global_timer > 0

\* C31 -- Collectible accounting.  In every state frames and key events
\* reach, collected_count is the number of session collectibles below
\* total_collectibles whose collected flag is set,
\* 0 <= collected_count <= total_collectibles <= MAX_COLLECTIBLES, and a
\* session with game_won set has collected_count = total_collectibles; the
\* frame about to run and the two handlers that load a level keep it so.
C31_CollectibleAccounting ==
    LET Holds(t) ==
            /\ t.collected_count =
                   Cardinality({i \in 1 .. t.total_collectibles :
                                    t.collectibles[i].collected})
            /\ 0 <= t.collected_count
            /\ t.collected_count <= t.total_collectibles
            /\ t.total_collectibles <= MAX_COLLECTIBLES
            /\ t.game_won => t.collected_count = t.total_collectibles
    IN  /\ Holds(Sess)
        /\ Holds(KeyDownR(Sess)) /\ Holds(KeyDownN(Sess))
        /\ \A keys \in [left : BOOLEAN, right : BOOLEAN], ticks \in TickSet,
               rnd \in RandSet :
               /\ Holds(AppIterate(Sess, keys, ticks, rnd))
               /\ Playing => Holds(AfterGoal(Sess, keys, ticks, rnd))

\* frames took the player of level 0 through its first gem: one of three
\* is flagged and counted, the other two are not
C31_Witness ==
    /\ frames > 1 /\ Playing /\ current_level = 0
    /\ global_timer = 7103 - frames
    /\ total_collectibles = 3 /\ collected_count = 1
    /\ Cardinality({i \in 1 .. 3 : collectibles[i].collected}) = 1
    /\ ~collectibles[3].collected

C33_Patrol ==
    \A i \in 1 .. num_moving_platforms :
        LET m == moving_platforms[i]
            t == LevelAt(current_level).level_moving_platforms[i]
            n1 == StepPlatform(m)
            n2 == StepPlatform(n1)
        IN  /\ num_moving_platforms = LevelAt(current_level).num_moving
            /\ t.vx # 0 \/ t.vy # 0
            /\ t.vx # 0 =>
                   /\ m.start_x <= m.rect.x /\ m.rect.x <= m.end_x
                   /\ m.rect.y = t.rect.y /\ m.vy = 0
            /\ t.vy # 0 =>
                   /\ m.start_y <= m.rect.y /\ m.rect.y <= m.end_y
                   /\ m.rect.x = t.rect.x /\ m.vx = 0
            /\ m.vx \in {t.vx, 0 - t.vx} /\ m.vy \in {t.vy, 0 - t.vy}
            /\ m = [t EXCEPT !.rect.x = m.rect.x, !.rect.y = m.rect.y,
                             !.vx = m.vx, !.vy = m.vy]
            /\ ~(n1.vx # m.vx /\ n2.vx # n1.vx)
            /\ ~(n1.vy # m.vy /\ n2.vy # n1.vy)

\* the last platform of level 5 has gone up to start_y, turned, and come
\* down past its first position to end_y, where it has turned again
C33_Witness ==
    /\ current_level = 5
    /\ moving_platforms[5].rect.y = moving_platforms[5].end_y
    /\ moving_platforms[5].rect.y > Level5.level_moving_platforms[5].rect.y
    /\ moving_platforms[5].vy = Level5.level_moving_platforms[5].vy
    /\ moving_platforms[5].vy < 0

\* C34 -- Respawn frame effect.  In the Playing frame about to run, a lava
\* hit with lives to spare changes lives (one less), player.x and
\* player.y (the start position), player_vy (0) and invincibility_timer
\* (120) and nothing else of the session (the particles of the hit go to
\* the particle pool); a fall with lives to spare does the same with 60.
\* is_on_ground, coyote_timer, jump_buffer, jump_held and double_jump_used
\* are those the frame had before the respawn, and they are what the frame
\* leaves, while reset_player clears all five.
C34_RespawnEffect ==
    /\ LET r == reset_player(Sess) IN
       /\ ~r.is_on_ground /\ r.coyote_timer = 0 /\ r.jump_buffer = 0
       /\ ~r.jump_held /\ ~r.double_jump_used
    /\ Playing =>
           \A keys \in [left : BOOLEAN, right : BOOLEAN], ticks \in TickSet,
              rnd \in RandSet :
               LET i == AfterInvincibility(Sess, keys, ticks, rnd)
                   l == AfterLava(Sess, keys, ticks, rnd)
                   f == AfterFall(Sess, keys, ticks, rnd)
                   e == AppIterate(Sess, keys, ticks, rnd)
                   start == LevelAt(current_level).start_pos
                   Respawned(a, b, grant) ==
                       b = [a EXCEPT !.lives = a.lives - 1,
                                     !.player.x = start.x,
                                     !.player.y = start.y,
                                     !.player_vy = 0,
                                     !.invincibility_timer = grant,
                                     !.particles = b.particles]
               IN  /\ (LavaHit(i) /\ i.lives > 1) => Respawned(i, l, 120)
                   /\ (FellOff(l) /\ l.lives > 1) => Respawned(l, f, 60)
                   /\ ((LavaHit(i) /\ i.lives > 1) \/ (FellOff(l) /\ l.lives > 1))
                      => /\ e.is_on_ground = i.is_on_ground
                         /\ e.coyote_timer = i.coyote_timer
                         /\ e.jump_buffer = i.jump_buffer
                         /\ e.jump_held = jump_held
                         /\ e.double_jump_used = i.double_jump_used

\* a jump was pressed in the air above the lava of level 0 and the frame
\* after it took the first life: the player is back at the start position
\* with the jump still held and the press still buffered
C34_Witness ==
    /\ frames > 0 /\ Playing /\ lives = 2 /\ invincibility_timer = 120
    /\ player.x = Level0.start_pos.x /\ player.y = Level0.start_pos.y
    /\ player_vy = 0
    /\ jump_held /\ jump_buffer = JUMP_BUFFER_TIME - 1

\* C35 as stated -- the boundary test is false for the circle position of
\* startup, a mouse-motion event that reports that position never sets
\* game over, and the first mouse-motion event never sets game over.
C35_AsStated ==
    /\ ~TouchesBoundary(circle_AppInit.mouse_x, circle_AppInit.mouse_y)
    /\ MouseMotion(circle, circle_AppInit.mouse_x, circle_AppInit.mouse_y).game_over
           = circle.game_over
    /\ ~circle.mouse_moved =>
           \A new_x \in MouseXs, new_y \in MouseYs :
               ~MouseMotion(circle, new_x, new_y).game_over

\* C35 -- what the code does at the start.  The position of startup is
\* (200, 100): its y is 50 + 50, on the upper limit of the circle's
\* centre, so the boundary test holds for it (y - 50 <= 50).  The first
\* mouse-motion event never sets game over, whatever it reports; every
\* later event that reports the position of startup sets it.
C35_SafeStart ==
    /\ circle_AppInit.mouse_x = 200 /\ circle_AppInit.mouse_y = 100
    /\ TouchesBoundary(circle_AppInit.mouse_x, circle_AppInit.mouse_y)
    /\ ~TouchesBoundary(circle_AppInit.mouse_x, 150)
    /\ ~circle.mouse_moved =>
           /\ circle = circle_AppInit
           /\ \A new_x \in MouseXs, new_y \in MouseYs :
                  ~MouseMotion(circle, new_x, new_y).game_over
    /\ circle.mouse_moved =>
           MouseMotion(circle, circle_AppInit.mouse_x, circle_AppInit.mouse_y).game_over

\* game over with the circle where startup put it
C35_Witness ==
    /\ circle.game_over /\ circle.mouse_moved
    /\ circle.mouse_x = circle_AppInit.mouse_x
    /\ circle.mouse_y = circle_AppInit.mouse_y

\* C36 -- Containment.  After any sequence of mouse-motion events
\* 100 <= mouse_x <= 300 and 100 <= mouse_y <= 200, the next event leaves
\* it so whatever it reports, and an event never clears game_over.
C36_Containment ==
    LET Inside(c) == /\ 100 <= c.mouse_x /\ c.mouse_x <= 300
                     /\ 100 <= c.mouse_y /\ c.mouse_y <= 200
    IN  /\ Inside(circle)
        /\ \A new_x \in MouseXs, new_y \in MouseYs :
               LET c == MouseMotion(circle, new_x, new_y) IN
               /\ Inside(c)
               /\ circle.game_over => c.game_over
               /\ c.mouse_x = (IF new_x < 100 THEN 100
                               ELSE IF new_x > 300 THEN 300 ELSE new_x)
               /\ c.mouse_y = (IF new_y < 100 THEN 100
                               ELSE IF new_y > 200 THEN 200 ELSE new_y)

\* an event on the boundary has set game over, and a later event at
\* (150, 150), well inside the square, has left it set
C36_Witness ==
    /\ circle.game_over
    /\ circle.mouse_x = 150 /\ circle.mouse_y = 150

====
